---- MODULE Spec2Model ----
(***************************************************************************)
(* Watch-party synchronisation server (src/server/src/index.ts, second     *)
(* listing: the host-promotion server with authoritative playback state).  *)
(*                                                                         *)
(* Numbers.  Every JavaScript number that stands for seconds or for a      *)
(* playback rate is represented by the integer  value * 10^5  (Sec, Cs),   *)
(* so 0.25 s is 25000 and the rate 1.5 is 150000.  Times read from         *)
(* Date.now() are integers in milliseconds.  With rates that are multiples *)
(* of 0.01 the product (ms / 1000) * rate is an exact integer in this      *)
(* representation.  A number that is undefined, NaN or infinite is the     *)
(* empty tuple NotFinite; a finite number v is the 1-tuple <<v>>.           *)
(*                                                                         *)
(* Strings that go through trim().toUpperCase() are tuples of one-letter   *)
(* strings, so that the conversion is computed and not assumed.            *)
(***************************************************************************)
EXTENDS Integers, Sequences, FiniteSets, TLC

VARIABLES
    rooms,      \* the registry: room code -> Room              (line 193)
    channels,   \* socket.io rooms: room code -> joined sockets (socket.join)
    live,       \* the connected sockets
    now,        \* Date.now(), in ms since the server started
    out,        \* the messages emitted by the handler that ran last
    last,       \* which handler ran last, and with which input
    correctedAt,\* history: <<code, socket>> -> the readings of the clock at
                \* which the room sent the socket a playback:correct
    client      \* the RoomPage component of one browser (room/[code]/page.tsx)

vars == <<rooms, channels, live, now, out, last, correctedAt, client>>

----------------------------------------------------------------------------
(* Number representation and arithmetic helpers. *)

Sec(n) == n * 100000
Cs(n) == n * 1000

NotFinite == <<>>
Fin(v) == <<v>>
NumberIsFinite(x) == Len(x) = 1

Max(a, b) == IF a >= b THEN a ELSE b
Min(a, b) == IF a <= b THEN a ELSE b
Abs(a) == IF a < 0 THEN -a ELSE a

----------------------------------------------------------------------------
(* Program constants (lines 195-198). *)

SYNC_TOLERANCE_SECONDS == Cs(25)
HARD_SEEK_THRESHOLD_SECONDS == Sec(2)
REPORT_STALE_MS == 4000
CORRECT_COOLDOWN_MS == 800

----------------------------------------------------------------------------
(* code.trim().toUpperCase() on tuples of characters. *)

UpperOf(ch) ==
    CASE ch = "a" -> "A"
      [] ch = "b" -> "B"
      [] ch = "c" -> "C"
      [] OTHER -> ch

RECURSIVE TrimStart(_)
TrimStart(str) ==
    IF str # <<>> /\ Head(str) = " " THEN TrimStart(Tail(str)) ELSE str

RECURSIVE TrimEnd(_)
TrimEnd(str) ==
    IF str # <<>> /\ str[Len(str)] = " "
    THEN TrimEnd(SubSeq(str, 1, Len(str) - 1))
    ELSE str

Trim(str) == TrimEnd(TrimStart(str))

ToUpperCase(str) == [i \in 1..Len(str) |-> UpperOf(str[i])]

Normalize(code) == ToUpperCase(Trim(code))

----------------------------------------------------------------------------
(* Insertion-ordered Set<string> (room.sockets): a tuple without repeats. *)

SetOf(seq) == {seq[i] : i \in 1..Len(seq)}

SetHas(seq, x) == x \in SetOf(seq)

SetAdd(seq, x) == IF SetHas(seq, x) THEN seq ELSE Append(seq, x)

RECURSIVE SetDelete(_, _)
SetDelete(seq, x) ==
    IF seq = <<>> THEN <<>>
    ELSE IF Head(seq) = x THEN SetDelete(Tail(seq), x)
    ELSE <<Head(seq)>> \o SetDelete(Tail(seq), x)

\* Map.delete on room.reports
MapDelete(map, k) == [x \in (DOMAIN map) \ {k} |-> map[x]]

\* Map.set
MapSet(map, k, v) == [x \in (DOMAIN map) \cup {k} |-> IF x = k THEN v ELSE map[x]]

----------------------------------------------------------------------------
(* The playback state machine (lines 228-272). *)

getPlaybackSnapshotIgnoringRate(room, nowMs) ==
    LET elapsedSeconds ==
            IF room.playback.isPlaying
            THEN (nowMs - room.playback.updatedAtMs) * 100
            ELSE 0
        positionSeconds == Max(0, room.playback.positionSeconds + elapsedSeconds)
    IN  [isPlaying       |-> room.playback.isPlaying,
         positionSeconds |-> positionSeconds,
         playbackRate    |-> room.playback.playbackRate,
         seq             |-> room.playback.seq,
         serverTimeMs    |-> nowMs]

\* lines 228-240
getPlaybackSnapshot(room, nowMs) ==
    LET elapsedSeconds ==
            IF room.playback.isPlaying
            THEN ((nowMs - room.playback.updatedAtMs) * room.playback.playbackRate) \div 1000
            ELSE 0
        positionSeconds == Max(0, room.playback.positionSeconds + elapsedSeconds)
    IN  [isPlaying       |-> room.playback.isPlaying,
         positionSeconds |-> positionSeconds,
         playbackRate    |-> room.playback.playbackRate,
         seq             |-> room.playback.seq,
         serverTimeMs    |-> nowMs]

\* line 248: Number.isFinite(t) ? Math.max(0, t) : undefined
FiniteTimeUnclamped(t) == t
FiniteTime(t) == IF NumberIsFinite(t) THEN Fin(Max(0, t[1])) ELSE NotFinite

\* line 257: Math.min(2, Math.max(0.5, timeSeconds))
ClampRateUpperOnly(v) == Min(Sec(2), v)
ClampRate(v) == Min(Sec(2), Max(Cs(50), v))

applyPlaybackActionLazySeq(room, nowMs, action) ==
    LET current == getPlaybackSnapshot(room, nowMs)
        timeSeconds == FiniteTime(action.timeSeconds)
        has == NumberIsFinite(timeSeconds)
        p0 == [room.playback EXCEPT !.positionSeconds = current.positionSeconds,
                                    !.updatedAtMs = nowMs]
        p1 == IF action.type \in {"seek", "play", "pause"} /\ has
              THEN [p0 EXCEPT !.positionSeconds = timeSeconds[1]] ELSE p0
        p2 == IF action.type = "rate" /\ has
              THEN [p1 EXCEPT !.playbackRate = ClampRate(timeSeconds[1])] ELSE p1
        p3 == IF action.type = "play" THEN [p2 EXCEPT !.isPlaying = TRUE]
              ELSE IF action.type = "pause" THEN [p2 EXCEPT !.isPlaying = FALSE]
              ELSE p2
        same == /\ p3.isPlaying = room.playback.isPlaying
                /\ p3.positionSeconds = room.playback.positionSeconds
                /\ p3.playbackRate = room.playback.playbackRate
    IN  [room EXCEPT !.playback = IF same THEN p3 ELSE [p3 EXCEPT !.seq = @ + 1]]

\* applyPlaybackAction without the assignment of line 245.
applyPlaybackActionWithoutCollapse(room, nowMs, action) ==
    LET p0 == [room.playback EXCEPT !.updatedAtMs = nowMs]
        timeSeconds == FiniteTime(action.timeSeconds)
        has == NumberIsFinite(timeSeconds)
        p1 == IF action.type \in {"seek", "play", "pause"} /\ has
              THEN [p0 EXCEPT !.positionSeconds = timeSeconds[1]] ELSE p0
        p2 == IF action.type = "rate" /\ has
              THEN [p1 EXCEPT !.playbackRate = ClampRate(timeSeconds[1])] ELSE p1
        p3 == IF action.type = "play" THEN [p2 EXCEPT !.isPlaying = TRUE]
              ELSE IF action.type = "pause" THEN [p2 EXCEPT !.isPlaying = FALSE]
              ELSE p2
    IN  [room EXCEPT !.playback = [p3 EXCEPT !.seq = @ + 1]]

applyPlaybackAction(room, nowMs, action) ==
    LET \* advance the room clock to "now" (lines 244-246)
        current == getPlaybackSnapshot(room, nowMs)
        p0 == [room.playback EXCEPT !.positionSeconds = current.positionSeconds,
                                    !.updatedAtMs = nowMs]
        timeSeconds == FiniteTime(action.timeSeconds)
        has == NumberIsFinite(timeSeconds)
        \* seek (lines 250-252)
        p1 == IF action.type = "seek" /\ has
              THEN [p0 EXCEPT !.positionSeconds = timeSeconds[1]] ELSE p0
        \* rate (lines 254-259)
        p2 == IF action.type = "rate" /\ has
              THEN [p1 EXCEPT !.playbackRate = ClampRate(timeSeconds[1])] ELSE p1
        \* play (lines 261-264)
        p3 == IF action.type = "play"
              THEN [(IF has THEN [p2 EXCEPT !.positionSeconds = timeSeconds[1]] ELSE p2)
                        EXCEPT !.isPlaying = TRUE]
              ELSE p2
        \* pause (lines 266-269)
        p4 == IF action.type = "pause"
              THEN [(IF has THEN [p3 EXCEPT !.positionSeconds = timeSeconds[1]] ELSE p3)
                        EXCEPT !.isPlaying = FALSE]
              ELSE p3
    IN  [room EXCEPT !.playback = [p4 EXCEPT !.seq = @ + 1]]

----------------------------------------------------------------------------
(* Outbound messages.  rcpt is the set of sockets the transport delivers   *)
(* to at the moment of the emit: the sockets joined to the socket.io room  *)
(* for io.to(code).emit, the socket itself for socket.emit, cb and         *)
(* io.to(socketId).emit.                                                   *)

NoCode == <<>>
\* The environments of the server leave the browser out.
NoClient == <<>>
NoSocket == ""
EmptyMap == [x \in {} |-> 0]

ChannelOf(ch, code) == IF code \in DOMAIN ch THEN ch[code] ELSE {}

\* socket.join(code)
SocketJoin(ch, code, s) == MapSet(ch, code, ChannelOf(ch, code) \cup {s})

\* socket.io removes a closing socket from every room before "disconnect" fires
SocketLeaveAll(ch, s) ==
    [c \in {x \in DOMAIN ch : ch[x] \ {s} # {}} |-> ch[c] \ {s}]

\* io.to(code).emit(ev, data)
ToRoom(ch, code, ev, data) ==
    [ev |-> ev, room |-> code, sock |-> NoSocket, rcpt |-> ChannelOf(ch, code), data |-> data]

\* socket.emit(ev, data) and io.to(socketId).emit(ev, data)
ToSocket(s, ev, data) ==
    [ev |-> ev, room |-> NoCode, sock |-> s, rcpt |-> {s}, data |-> data]

\* cb(data): the acknowledgement of the request named req
Ack(s, req, data) ==
    [ev |-> "cb", room |-> NoCode, sock |-> s, rcpt |-> {s},
     data |-> [of |-> req, value |-> data]]

\* lines 217-226
emitRoomInfo(rs, ch, code) ==
    IF code \notin DOMAIN rs THEN {}
    ELSE {ToRoom(ch, code, "room:info",
                 [code         |-> code,
                  hostSocketId |-> rs[code].hostSocketId,
                  usersCount   |-> Len(rs[code].sockets)])}

\* lines 274-285 (payload of playback:state)
StatePayload(snapshot, by, action) ==
    [isPlaying       |-> snapshot.isPlaying,
     positionSeconds |-> snapshot.positionSeconds,
     playbackRate    |-> snapshot.playbackRate,
     seq             |-> snapshot.seq,
     serverTimeMs    |-> snapshot.serverTimeMs,
     by              |-> by,
     action          |-> action]

emitPlaybackStateToOthers(rs, ch, code, nowMs, by, action) ==
    IF code \notin DOMAIN rs THEN {}
    ELSE {[ToRoom(ch, code, "playback:state",
                  StatePayload(getPlaybackSnapshot(rs[code], nowMs), by, action))
              EXCEPT !.rcpt = @ \ {by}]}

\* lines 274-285
emitPlaybackState(rs, ch, code, nowMs, by, action) ==
    IF code \notin DOMAIN rs THEN {}
    ELSE {ToRoom(ch, code, "playback:state",
                 StatePayload(getPlaybackSnapshot(rs[code], nowMs), by, action))}

----------------------------------------------------------------------------
(* Drift computation (lines 287-316). *)

computeClientPositionAtNow(report, nowMs) ==
    LET ageMs == Max(0, nowMs - report.receivedAtMs)
        adv == IF report.isPlaying THEN (ageMs * report.playbackRate) \div 1000 ELSE 0
    IN  Max(0, report.timeSeconds + adv)

RECURSIVE MaxOf(_)
MaxOf(S) ==
    IF S = {} THEN 0
    ELSE LET x == CHOOSE y \in S : TRUE IN Max(x, MaxOf(S \ {x}))

IsFreshBelowLimit(room, s, nowMs) ==
    /\ s \in DOMAIN room.reports
    /\ ~(nowMs - room.reports[s].receivedAtMs >= REPORT_STALE_MS)

\* line 302
IsFresh(room, s, nowMs) ==
    /\ s \in DOMAIN room.reports
    /\ ~(nowMs - room.reports[s].receivedAtMs > REPORT_STALE_MS)

getRoomSyncStatusOfFreshOnly(room, nowMs) ==
    LET snapshot == getPlaybackSnapshot(room, nowMs)
        members == SetOf(room.sockets)
        freshOnes == {s \in members : IsFresh(room, s, nowMs)}
        drifts == [s \in freshOnes |->
                     LET d == computeClientPositionAtNow(room.reports[s], nowMs)
                                  - snapshot.positionSeconds
                     IN  [socketId |-> s, driftSeconds |-> d, abs |-> Abs(d)]]
        allHaveFreshReports == freshOnes = members
    IN  [snapshot             |-> snapshot,
         isSynced             |-> \A s \in freshOnes : drifts[s].abs <= SYNC_TOLERANCE_SECONDS,
         worstAbsDriftSeconds |-> MaxOf({drifts[s].abs : s \in freshOnes}),
         allHaveFreshReports  |-> allHaveFreshReports,
         drifts               |-> drifts]

\* lines 293-316
getRoomSyncStatus(room, nowMs) ==
    LET snapshot == getPlaybackSnapshot(room, nowMs)
        members == SetOf(room.sockets)
        freshOnes == {s \in members : IsFresh(room, s, nowMs)}
        drifts == [s \in freshOnes |->
                     LET d == computeClientPositionAtNow(room.reports[s], nowMs)
                                  - snapshot.positionSeconds
                     IN  [socketId |-> s, driftSeconds |-> d, abs |-> Abs(d)]]
        allHaveFreshReports == freshOnes = members
    IN  [snapshot             |-> snapshot,
         isSynced             |-> allHaveFreshReports
                                  /\ \A s \in freshOnes : drifts[s].abs <= SYNC_TOLERANCE_SECONDS,
         worstAbsDriftSeconds |-> MaxOf({drifts[s].abs : s \in freshOnes}),
         allHaveFreshReports  |-> allHaveFreshReports,
         drifts               |-> drifts]

\* lines 318-325
emitRoomSyncIndicator(ch, code, nowMs, isSynced, worstAbsDriftSeconds) ==
    ToRoom(ch, code, "room:sync",
           [isSynced             |-> isSynced,
            worstAbsDriftSeconds |-> worstAbsDriftSeconds,
            toleranceSeconds     |-> SYNC_TOLERANCE_SECONDS,
            serverTimeMs         |-> nowMs])

----------------------------------------------------------------------------
(* Handlers.  P is the environment: the sockets that connect, the inputs   *)
(* clients send, and the bounds of the exploration.  A handler reads       *)
(* Date.now() once, except where it calls a function that reads it again;  *)
(* the timer callback may run at any reading.                              *)

\* A handler that reads Date.now() twice gets its second reading d ms after
\* the first, d drawn from P.emitDelays; the exploration keeps a positive d
\* to handlers that start at one of the environment's instants.
SecondReading(P) == {d \in P.emitDelays : d = 0 \/ now \in P.instants}

\* What ran last: its socket and normalised code, whether it passed its
\* guards (ok), a playback action's type and timeSeconds, and the branches it
\* took (via).
LastOp(op, s, code, ok, type, time, via) ==
    [op |-> op, socket |-> s, code |-> code, ok |-> ok,
     type |-> type, time |-> time, via |-> via]

\* lines 209-215: a random code that is not taken, or, after twenty random
\* codes that are all taken, the last six base-36 digits of Date.now(),
\* which are returned without looking them up.
createUniqueRoomCode(P, rs) ==
    {[code |-> c, via |-> "random"] : c \in P.roomCodes \ DOMAIN rs}
    \cup (IF DOMAIN rs # {}
          THEN {[code |-> c, via |-> "fallback"] : c \in P.roomCodes}
          ELSE {})

NewRoomWithoutMember(code, s, nowMs) ==
    [code         |-> code,
     hostSocketId |-> s,
     sockets      |-> <<>>,
     playback     |-> [isPlaying       |-> FALSE,
                       positionSeconds |-> 0,
                       playbackRate    |-> Sec(1),
                       updatedAtMs     |-> nowMs,
                       seq             |-> 0],
     reports      |-> EmptyMap]

\* lines 332-344
NewRoom(code, s, nowMs) ==
    [code         |-> code,
     hostSocketId |-> s,
     sockets      |-> <<s>>,
     playback     |-> [isPlaying       |-> FALSE,
                       positionSeconds |-> 0,
                       playbackRate    |-> Sec(1),
                       updatedAtMs     |-> nowMs,
                       seq             |-> 0],
     reports      |-> EmptyMap]

\* room:create (lines 329-352)
RoomCreate(P, s, hasCb) ==
    /\ s \in live
    /\ \E g \in createUniqueRoomCode(P, rooms) :
         LET rs == MapSet(rooms, g.code, NewRoom(g.code, s, now))
             ch == SocketJoin(channels, g.code, s)
         IN  /\ rooms' = rs
             /\ channels' = ch
             /\ out' = (IF hasCb THEN {Ack(s, "room:create", [code |-> g.code])} ELSE {})
                       \cup {ToSocket(s, "room:created", [code |-> g.code])}
                       \cup emitRoomInfo(rs, ch, g.code)
             /\ last' = LastOp("room:create", s, g.code, TRUE, "", NotFinite, {g.via})
    /\ UNCHANGED <<live, now>>

RoomJoinLenient(P, s, raw) ==
    /\ s \in live
    /\ LET normalized == Normalize(raw)
           rs == IF normalized \in DOMAIN rooms
                 THEN [rooms EXCEPT ![normalized].sockets = SetAdd(@, s)]
                 ELSE MapSet(rooms, normalized, NewRoom(normalized, s, now))
           ch == SocketJoin(channels, normalized, s)
       IN  /\ rooms' = rs
           /\ channels' = ch
           /\ out' = {ToSocket(s, "playback:state",
                               StatePayload(getPlaybackSnapshot(rs[normalized], now), s, "state")),
                      ToSocket(s, "room:joined", [code |-> normalized])}
                     \cup emitRoomInfo(rs, ch, normalized)
           /\ last' = LastOp("room:join", s, normalized, normalized \in DOMAIN rooms,
                             "", NotFinite, {})
    /\ UNCHANGED <<live, now>>

\* A room:join that takes the socket out of every other room.
RoomJoinLeavingOthers(P, s, raw) ==
    /\ s \in live
    /\ LET normalized == Normalize(raw)
       IN  IF normalized \notin DOMAIN rooms
           THEN /\ out' = {ToSocket(s, "room:error", [message |-> "Room not found"])}
                /\ last' = LastOp("room:join", s, normalized, FALSE, "", NotFinite, {})
                /\ UNCHANGED <<rooms, channels>>
           ELSE LET room == rooms[normalized]
                    rs == [c \in DOMAIN rooms |->
                              IF c = normalized
                              THEN [rooms[c] EXCEPT !.sockets = SetAdd(@, s)]
                              ELSE [rooms[c] EXCEPT !.sockets = SetDelete(@, s)]]
                    ch == SocketJoin(channels, room.code, s)
                IN  /\ rooms' = rs
                    /\ channels' = ch
                    /\ out' = {ToSocket(s, "playback:state",
                                        StatePayload(getPlaybackSnapshot(rs[normalized], now),
                                                     s, "state")),
                               ToSocket(s, "room:joined", [code |-> room.code])}
                              \cup emitRoomInfo(rs, ch, room.code)
                    /\ last' = LastOp("room:join", s, normalized, TRUE, "", NotFinite, {})
    /\ UNCHANGED <<live, now>>

\* room:join (lines 355-376)
RoomJoin(P, s, raw) ==
    /\ s \in live
    /\ LET normalized == Normalize(raw)
       IN  IF normalized \notin DOMAIN rooms
           THEN /\ out' = {ToSocket(s, "room:error", [message |-> "Room not found"])}
                /\ last' = LastOp("room:join", s, normalized, FALSE, "", NotFinite, {})
                /\ UNCHANGED <<rooms, channels>>
           ELSE LET room == rooms[normalized]
                    rs == [rooms EXCEPT ![normalized].sockets = SetAdd(@, s)]
                    ch == SocketJoin(channels, room.code, s)
                IN  /\ rooms' = rs
                    /\ channels' = ch
                    /\ out' = {ToSocket(s, "playback:state",
                                        StatePayload(getPlaybackSnapshot(rs[normalized], now),
                                                     s, "state")),
                               ToSocket(s, "room:joined", [code |-> room.code])}
                              \cup emitRoomInfo(rs, ch, room.code)
                    /\ last' = LastOp("room:join", s, normalized, TRUE, "", NotFinite, {})
    /\ UNCHANGED <<live, now>>

PlaybackActionNoMemberCheck(P, s, raw, type, time) ==
    /\ s \in live
    /\ LET normalized == Normalize(raw)
       IN  IF normalized \notin DOMAIN rooms
           THEN /\ out' = {}
                /\ last' = LastOp("playback:action", s, normalized, FALSE, type, time, {})
                /\ UNCHANGED <<rooms, now>>
           ELSE LET room == rooms[normalized]
                    rs == [rooms EXCEPT ![normalized] =
                              applyPlaybackAction(room, now, [type |-> type, timeSeconds |-> time])]
                IN  /\ room.playback.seq < P.maxSeq
                    /\ rooms' = rs
                    /\ \E d \in SecondReading(P) :
                         /\ out' = emitPlaybackState(rs, channels, room.code, now + d, s, type)
                         /\ now' = now + d
                    /\ last' = LastOp("playback:action", s, normalized,
                                      SetHas(room.sockets, s), type, time, {})
    /\ UNCHANGED <<channels, live>>

\* playback:action (lines 379-393)
PlaybackAction(P, s, raw, type, time) ==
    /\ s \in live
    /\ LET normalized == Normalize(raw)
       IN  IF normalized \notin DOMAIN rooms \/ ~SetHas(rooms[normalized].sockets, s)
           THEN /\ out' = {}
                /\ last' = LastOp("playback:action", s, normalized, FALSE, type, time, {})
                /\ UNCHANGED <<rooms, now>>
           ELSE LET room == rooms[normalized]
                    rs == [rooms EXCEPT ![normalized] =
                              applyPlaybackAction(room, now, [type |-> type, timeSeconds |-> time])]
                IN  /\ room.playback.seq < P.maxSeq
                    /\ rooms' = rs
                    \* emitPlaybackState reads Date.now() again (line 278): the
                    \* second reading is d ms after the handler's own (line 389)
                    /\ \E d \in SecondReading(P) :
                         /\ out' = emitPlaybackState(rs, channels, room.code, now + d, s, type)
                         /\ now' = now + d
                    /\ last' = LastOp("playback:action", s, normalized, TRUE, type, time, {})
    /\ UNCHANGED <<channels, live>>

PlaybackRequestCollapsing(P, s, raw, hasCb) ==
    /\ s \in live
    /\ LET normalized == Normalize(raw)
       IN  /\ normalized \in DOMAIN rooms
           /\ LET snapshot == getPlaybackSnapshot(rooms[normalized], now)
              IN  /\ rooms' = [rooms EXCEPT
                                  ![normalized].playback.positionSeconds = snapshot.positionSeconds,
                                  ![normalized].playback.updatedAtMs = now]
                  /\ out' = IF hasCb THEN {Ack(s, "playback:request", snapshot)}
                            ELSE {ToSocket(s, "playback:state", StatePayload(snapshot, s, "state"))}
                  /\ last' = LastOp("playback:request", s, normalized, TRUE, "", NotFinite, {})
    /\ UNCHANGED <<channels, live, now>>

\* playback:request (lines 396-418)
PlaybackRequest(P, s, raw, hasCb) ==
    /\ s \in live
    /\ LET normalized == Normalize(raw)
       IN  IF normalized \notin DOMAIN rooms
           THEN /\ out' = {}
                /\ last' = LastOp("playback:request", s, normalized, FALSE, "", NotFinite, {})
           ELSE LET snapshot == getPlaybackSnapshot(rooms[normalized], now)
                IN  /\ out' = IF hasCb THEN {Ack(s, "playback:request", snapshot)}
                              ELSE {ToSocket(s, "playback:state",
                                             StatePayload(snapshot, s, "state"))}
                    /\ last' = LastOp("playback:request", s, normalized, TRUE, "", NotFinite, {})
    /\ UNCHANGED <<rooms, channels, live, now>>

NewReportForgetful(old, nowMs, timeSeconds, isPlaying, playbackRate) ==
    [timeSeconds       |-> IF NumberIsFinite(timeSeconds) THEN Max(0, timeSeconds[1]) ELSE 0,
     isPlaying         |-> isPlaying,
     playbackRate      |-> IF NumberIsFinite(playbackRate)
                           THEN Min(Sec(2), Max(Cs(50), playbackRate[1]))
                           ELSE Sec(1),
     receivedAtMs      |-> nowMs,
     lastCorrectedAtMs |-> 0]

\* The stored report with the previous lastCorrectedAtMs replaced by the
\* time of the report.
NewReportRestamping(old, nowMs, timeSeconds, isPlaying, playbackRate) ==
    [timeSeconds       |-> IF NumberIsFinite(timeSeconds) THEN Max(0, timeSeconds[1]) ELSE 0,
     isPlaying         |-> isPlaying,
     playbackRate      |-> IF NumberIsFinite(playbackRate)
                           THEN Min(Sec(2), Max(Cs(50), playbackRate[1]))
                           ELSE Sec(1),
     receivedAtMs      |-> nowMs,
     lastCorrectedAtMs |-> IF old = <<>> THEN 0 ELSE nowMs]

\* lines 440-446
NewReport(old, nowMs, timeSeconds, isPlaying, playbackRate) ==
    [timeSeconds       |-> IF NumberIsFinite(timeSeconds) THEN Max(0, timeSeconds[1]) ELSE 0,
     isPlaying         |-> isPlaying,
     playbackRate      |-> IF NumberIsFinite(playbackRate)
                           THEN Min(Sec(2), Max(Cs(50), playbackRate[1]))
                           ELSE Sec(1),
     receivedAtMs      |-> nowMs,
     lastCorrectedAtMs |-> IF old = <<>> THEN 0 ELSE old[1].lastCorrectedAtMs]

\* An accepted playback:report, with the payload it carried.
LastReport(s, code, timeSeconds, isPlaying, playbackRate) ==
    [op |-> "playback:report", socket |-> s, code |-> code, ok |-> TRUE,
     type |-> "", time |-> NotFinite, via |-> {},
     payload |-> [timeSeconds |-> timeSeconds, isPlaying |-> isPlaying,
                  playbackRate |-> playbackRate]]

PlaybackReportFromAnyone(P, s, raw, timeSeconds, isPlaying, playbackRate) ==
    /\ s \in live
    /\ LET normalized == Normalize(raw)
       IN  IF normalized \notin DOMAIN rooms
           THEN /\ last' = LastOp("playback:report", s, normalized, FALSE, "", NotFinite, {})
                /\ UNCHANGED <<rooms>>
           ELSE LET room == rooms[normalized]
                    old == IF s \in DOMAIN room.reports THEN <<room.reports[s]>> ELSE <<>>
                IN  /\ rooms' = [rooms EXCEPT ![normalized].reports =
                                    MapSet(@, s, NewReport(old, now, timeSeconds,
                                                           isPlaying, playbackRate))]
                    /\ last' = LastOp("playback:report", s, normalized,
                                      SetHas(room.sockets, s), "", NotFinite, {})
    /\ out' = {}
    /\ UNCHANGED <<channels, live, now>>

\* playback:report (lines 421-448)
PlaybackReport(P, s, raw, timeSeconds, isPlaying, playbackRate) ==
    /\ s \in live
    /\ LET normalized == Normalize(raw)
       IN  IF normalized \notin DOMAIN rooms \/ ~SetHas(rooms[normalized].sockets, s)
           THEN /\ last' = LastOp("playback:report", s, normalized, FALSE, "", NotFinite, {})
                /\ UNCHANGED <<rooms>>
           ELSE LET room == rooms[normalized]
                    old == IF s \in DOMAIN room.reports THEN <<room.reports[s]>> ELSE <<>>
                IN  /\ rooms' = [rooms EXCEPT ![normalized].reports =
                                    MapSet(@, s, NewReport(old, now, timeSeconds,
                                                           isPlaying, playbackRate))]
                    /\ last' = LastReport(s, normalized, timeSeconds, isPlaying, playbackRate)
    /\ out' = {}
    /\ UNCHANGED <<channels, live, now>>

\* One iteration of the disconnect loop (lines 453-474) for a room that
\* contains the socket: keep tells whether the room stays in the registry.
disconnectRoomNoPromotion(room, s) ==
    LET r == [room EXCEPT !.sockets = SetDelete(@, s), !.reports = MapDelete(@, s)]
    IN  [keep |-> r.sockets # <<>>, room |-> r]

disconnectRoomKeepEmpty(room, s) ==
    LET r == [room EXCEPT !.sockets = SetDelete(@, s), !.reports = MapDelete(@, s)]
    IN  [keep |-> TRUE,
         room |-> IF room.hostSocketId = s /\ r.sockets # <<>>
                  THEN [r EXCEPT !.hostSocketId = Head(r.sockets)] ELSE r]

disconnectRoomCloseOnHost(room, s) ==
    LET r == [room EXCEPT !.sockets = SetDelete(@, s), !.reports = MapDelete(@, s)]
    IN  [keep |-> room.hostSocketId # s /\ r.sockets # <<>>, room |-> r]

\* The loop body without room.reports.delete (line 456).
disconnectRoomKeepReport(room, s) ==
    LET r == [room EXCEPT !.sockets = SetDelete(@, s)]
    IN  IF room.hostSocketId = s
        THEN IF r.sockets = <<>>
             THEN [keep |-> FALSE, room |-> r]
             ELSE [keep |-> TRUE, room |-> [r EXCEPT !.hostSocketId = Head(r.sockets)]]
        ELSE IF Len(r.sockets) = 0
             THEN [keep |-> FALSE, room |-> r]
             ELSE [keep |-> TRUE, room |-> r]

disconnectRoom(room, s) ==
    LET r == [room EXCEPT !.sockets = SetDelete(@, s), !.reports = MapDelete(@, s)]
    IN  IF room.hostSocketId = s
        THEN \* nextHost = room.sockets.values().next().value (lines 459-466)
             IF r.sockets = <<>>
             THEN [keep |-> FALSE, room |-> r]
             ELSE [keep |-> TRUE, room |-> [r EXCEPT !.hostSocketId = Head(r.sockets)]]
        ELSE IF Len(r.sockets) = 0
             THEN [keep |-> FALSE, room |-> r]
             ELSE [keep |-> TRUE, room |-> r]

\* A disconnect, the branches it took, and the rooms it left in the
\* registry in which the socket had a report.
LastDisconnect(s, via, pruned) ==
    [op |-> "disconnect", socket |-> s, code |-> NoCode, ok |-> TRUE,
     type |-> "", time |-> NotFinite, via |-> via, pruned |-> pruned]

\* disconnect (lines 451-476)
Disconnect(s) ==
    /\ s \in live
    /\ LET ch == SocketLeaveAll(channels, s)
           hit == {c \in DOMAIN rooms : SetHas(rooms[c].sockets, s)}
           kept == {c \in DOMAIN rooms : c \in hit => disconnectRoom(rooms[c], s).keep}
           rs == [c \in kept |-> IF c \in hit THEN disconnectRoom(rooms[c], s).room
                                 ELSE rooms[c]]
       IN  /\ rooms' = rs
           /\ channels' = ch
           /\ out' = UNION {emitRoomInfo(rs, ch, c) : c \in hit \cap kept}
           /\ last' = LastDisconnect(s,
                             {"removed" : c \in hit \ kept}
                             \cup {"promoted" : c \in {x \in hit \cap kept :
                                        rs[x].hostSocketId # rooms[x].hostSocketId}},
                             {c \in hit \cap kept : s \in DOMAIN rooms[c].reports})
    /\ live' = live \ {s}
    /\ UNCHANGED now

\* 0.001, the rate mismatch allowance of line 497
RateEpsilon == Sec(1) \div 1000

CorrectionModeAboveThreshold(abs) ==
    IF abs > HARD_SEEK_THRESHOLD_SECONDS THEN "hard" ELSE "soft"

\* line 506
CorrectionMode(abs) ==
    IF abs >= HARD_SEEK_THRESHOLD_SECONDS THEN "hard" ELSE "soft"

\* The loop of lines 484-518 without the test of line 490.
tickRoomIgnoringFreshness(room, ch, code, nowMs, emitMs) ==
    LET st == getRoomSyncStatus(room, nowMs)
        needsCorrection(s) ==
            LET report == room.reports[s]
                stateMismatch ==
                    \/ report.isPlaying # st.snapshot.isPlaying
                    \/ Abs(report.playbackRate - st.snapshot.playbackRate) > RateEpsilon
            IN  st.drifts[s].abs > SYNC_TOLERANCE_SECONDS \/ stateMismatch
        corrected ==
            {s \in DOMAIN st.drifts :
                /\ needsCorrection(s)
                /\ ~(nowMs - room.reports[s].lastCorrectedAtMs < CORRECT_COOLDOWN_MS)}
        correction(s) ==
            ToSocket(s, "playback:correct",
                     [code              |-> code,
                      targetTimeSeconds |-> st.snapshot.positionSeconds,
                      isPlaying         |-> st.snapshot.isPlaying,
                      playbackRate      |-> st.snapshot.playbackRate,
                      seq               |-> st.snapshot.seq,
                      serverTimeMs      |-> st.snapshot.serverTimeMs,
                      mode              |-> CorrectionMode(st.drifts[s].abs),
                      toleranceSeconds  |-> SYNC_TOLERANCE_SECONDS])
    IN  [room |-> [room EXCEPT !.reports =
                      [s \in DOMAIN room.reports |->
                          IF s \in corrected
                          THEN [room.reports[s] EXCEPT !.lastCorrectedAtMs = nowMs]
                          ELSE room.reports[s]]],
         msgs |-> {emitRoomSyncIndicator(ch, code, emitMs, st.isSynced, st.worstAbsDriftSeconds)}
                  \cup {correction(s) : s \in corrected}]

\* The loop of lines 484-518 with needsCorrection reduced to the drift test.
tickRoomDriftOnly(room, ch, code, nowMs, emitMs) ==
    LET st == getRoomSyncStatus(room, nowMs)
        needsCorrection(s) == st.drifts[s].abs > SYNC_TOLERANCE_SECONDS
        corrected ==
            IF ~st.allHaveFreshReports THEN {}
            ELSE {s \in DOMAIN st.drifts :
                     /\ needsCorrection(s)
                     /\ ~(nowMs - room.reports[s].lastCorrectedAtMs < CORRECT_COOLDOWN_MS)}
        correction(s) ==
            ToSocket(s, "playback:correct",
                     [code              |-> code,
                      targetTimeSeconds |-> st.snapshot.positionSeconds,
                      isPlaying         |-> st.snapshot.isPlaying,
                      playbackRate      |-> st.snapshot.playbackRate,
                      seq               |-> st.snapshot.seq,
                      serverTimeMs      |-> st.snapshot.serverTimeMs,
                      mode              |-> CorrectionMode(st.drifts[s].abs),
                      toleranceSeconds  |-> SYNC_TOLERANCE_SECONDS])
    IN  [room |-> [room EXCEPT !.reports =
                      [s \in DOMAIN room.reports |->
                          IF s \in corrected
                          THEN [room.reports[s] EXCEPT !.lastCorrectedAtMs = nowMs]
                          ELSE room.reports[s]]],
         msgs |-> {emitRoomSyncIndicator(ch, code, emitMs, st.isSynced, st.worstAbsDriftSeconds)}
                  \cup {correction(s) : s \in corrected}]

\* One iteration of the tick's loop over the rooms (lines 484-518).
tickRoom(room, ch, code, nowMs, emitMs) ==
    LET st == getRoomSyncStatus(room, nowMs)
        needsCorrection(s) ==
            LET report == room.reports[s]
                stateMismatch ==
                    \/ report.isPlaying # st.snapshot.isPlaying
                    \/ Abs(report.playbackRate - st.snapshot.playbackRate) > RateEpsilon
            IN  st.drifts[s].abs > SYNC_TOLERANCE_SECONDS \/ stateMismatch
        corrected ==
            IF ~st.allHaveFreshReports THEN {}
            ELSE {s \in DOMAIN st.drifts :
                     /\ needsCorrection(s)
                     /\ ~(nowMs - room.reports[s].lastCorrectedAtMs < CORRECT_COOLDOWN_MS)}
        correction(s) ==
            ToSocket(s, "playback:correct",
                     [code              |-> code,
                      targetTimeSeconds |-> st.snapshot.positionSeconds,
                      isPlaying         |-> st.snapshot.isPlaying,
                      playbackRate      |-> st.snapshot.playbackRate,
                      seq               |-> st.snapshot.seq,
                      serverTimeMs      |-> st.snapshot.serverTimeMs,
                      mode              |-> CorrectionMode(st.drifts[s].abs),
                      toleranceSeconds  |-> SYNC_TOLERANCE_SECONDS])
    IN  [room |-> [room EXCEPT !.reports =
                      [s \in DOMAIN room.reports |->
                          IF s \in corrected
                          THEN [room.reports[s] EXCEPT !.lastCorrectedAtMs = nowMs]
                          ELSE room.reports[s]]],
         msgs |-> {emitRoomSyncIndicator(ch, code, emitMs, st.isSynced, st.worstAbsDriftSeconds)}
                  \cup {correction(s) : s \in corrected}]

\* setInterval callback (lines 480-520)
\* nowMs is read once (line 481); emitRoomSyncIndicator reads Date.now()
\* again for serverTimeMs (line 323), d ms later.
Tick(P) ==
    \E d \in SecondReading(P) :
        /\ rooms' = [c \in DOMAIN rooms |->
                        tickRoom(rooms[c], channels, c, now, now + d).room]
        /\ out' = UNION {tickRoom(rooms[c], channels, c, now, now + d).msgs :
                            c \in DOMAIN rooms}
        /\ last' = LastOp("tick", NoSocket, NoCode, TRUE, "", NotFinite, {})
        /\ now' = now + d
        /\ UNCHANGED <<channels, live>>

\* Date.now() moves on between two handlers, to a later reading.
Advance(P) ==
    /\ \E t \in P.instants :
         /\ t > now
         /\ now' = t
    /\ out' = {}
    /\ last' = LastOp("clock", NoSocket, NoCode, TRUE, "", NotFinite, {})
    /\ UNCHANGED <<rooms, channels, live>>

----------------------------------------------------------------------------
(* The server: every socket of P is connected and no room exists. *)

InitOf(P) ==
    /\ rooms = EmptyMap
    /\ channels = EmptyMap
    /\ live = P.sockets
    /\ now = P.start
    /\ out = {}
    /\ last = LastOp("init", NoSocket, NoCode, TRUE, "", NotFinite, {})
    /\ correctedAt = EmptyMap
    /\ client = NoClient

\* The history of corrections, kept from what the step emitted: a
\* playback:correct sent by room c to socket s at the tick's reading of the
\* clock is recorded under <<c, s>>.  An entry lasts as long as s is a member
\* of that Room object (it ends when s disconnects, when the room is
\* deleted, and when room:create stores a new Room under the code).
Corrections(msgs) == {m \in msgs : m.ev = "playback:correct"}

RecordCorrections ==
    LET sentNow == {<<m.data.code, m.sock>> : m \in Corrections(out')}
        kept    == {k \in DOMAIN correctedAt :
                       /\ k[1] \in DOMAIN rooms'
                       /\ SetHas(rooms'[k[1]].sockets, k[2])
                       /\ ~(last'.op = "room:create" /\ last'.code = k[1])}
        before(k) == IF k \in kept THEN correctedAt[k] ELSE <<>>
    IN  correctedAt' = [k \in sentNow \cup kept |->
                           IF k \in sentNow THEN Append(before(k), now) ELSE before(k)]

\* What every server step does besides its handler: the history is kept, and
\* the browser page is not part of these environments.
ServerStep == RecordCorrections /\ UNCHANGED client

NextOf(P) ==
    \/ \E s \in P.sockets, hasCb \in P.cbs : RoomCreate(P, s, hasCb) /\ ServerStep
    \/ \E s \in P.sockets, raw \in P.rawCodes : RoomJoin(P, s, raw) /\ ServerStep
    \/ \E s \in P.sockets, raw \in P.rawCodes, type \in P.types, time \in P.times :
         PlaybackAction(P, s, raw, type, time) /\ ServerStep
    \/ \E s \in P.sockets, raw \in P.rawCodes, hasCb \in P.cbs :
         PlaybackRequest(P, s, raw, hasCb) /\ ServerStep
    \/ \E s \in P.reporters, raw \in P.rawCodes, r \in P.reports :
         PlaybackReport(P, s, raw, r.timeSeconds, r.isPlaying, r.playbackRate) /\ ServerStep
    \/ \E s \in P.sockets : Disconnect(s) /\ ServerStep
    \/ Tick(P) /\ ServerStep
    \/ Advance(P) /\ ServerStep

----------------------------------------------------------------------------
(* Environments.  The seq counter is capped by a bound; the readings of    *)
(* Date.now() and the payloads clients send are drawn from small sets.     *)

MaxSeqRegistry == 1
MaxSeqPlayback == 2
MaxSeqScheduler == 1
MaxSeqEndToEnd == 1

\* Three sockets, one room code: membership, hosts and room lifetimes.
Registry ==
    [sockets   |-> {"s1", "s2", "s3"},
     roomCodes |-> {<<"A">>},
     rawCodes  |-> {<<"A">>, <<" ", "b", " ">>},
     cbs       |-> {FALSE},
     types     |-> {"play"},
     times     |-> {NotFinite},
     reporters |-> {"s1"},
     reports   |-> {[timeSeconds |-> Fin(0), isPlaying |-> FALSE, playbackRate |-> Fin(Sec(1))]},
     maxSeq    |-> MaxSeqRegistry,
     instants  |-> {0, 500},
     start     |-> 0,
     emitDelays |-> {0}]

\* Two sockets, two room codes: a socket that is in several rooms.
TwoRooms ==
    [sockets   |-> {"s1", "s2"},
     roomCodes |-> {<<"A">>, <<"B">>},
     rawCodes  |-> {<<"a", " ">>, <<"B">>},
     cbs       |-> {FALSE},
     types     |-> {"play"},
     times     |-> {NotFinite},
     reporters |-> {"s1"},
     reports   |-> {[timeSeconds |-> Fin(0), isPlaying |-> FALSE, playbackRate |-> Fin(Sec(1))]},
     maxSeq    |-> MaxSeqRegistry,
     instants  |-> {0, 500},
     start     |-> 0,
     emitDelays |-> {0}]

\* Two sockets, one room code: the playback state machine.
Playback ==
    [sockets   |-> {"s1", "s2"},
     roomCodes |-> {<<"A">>},
     rawCodes  |-> {<<" ", "a">>},
     cbs       |-> {FALSE, TRUE},
     types     |-> {"play", "pause", "seek", "rate"},
     times     |-> {NotFinite, Fin(Sec(-5)), Fin(Cs(10)), Fin(Sec(5))},
     reporters |-> {"s2"},
     reports   |-> {[timeSeconds |-> Fin(Sec(3)), isPlaying |-> FALSE, playbackRate |-> NotFinite]},
     maxSeq    |-> MaxSeqPlayback,
     instants  |-> {0, 500},
     start     |-> 0,
     emitDelays |-> {0}]

\* The scheduler's clock.  Date.now() is a large number, so a report's
\* initial lastCorrectedAtMs of 0 lies more than a cooldown in the past; the
\* readings are 800, 4000 and 4500 ms after the first, and 500 ms apart at
\* the end.
ServerEpoch == 10000
SchedulerInstants ==
    {ServerEpoch, ServerEpoch + CORRECT_COOLDOWN_MS, ServerEpoch + REPORT_STALE_MS,
     ServerEpoch + REPORT_STALE_MS + 500}

Paused(timeSeconds) ==
    [timeSeconds |-> Fin(timeSeconds), isPlaying |-> FALSE, playbackRate |-> Fin(Sec(1))]

\* One member and the tick: reports on both sides of the tolerance and of
\* the hard-seek threshold around the position 10 s, and one that differs
\* from a paused room in isPlaying only.
Drift ==
    [sockets   |-> {"s1"},
     roomCodes |-> {<<"A">>},
     rawCodes  |-> {<<"a">>},
     cbs       |-> {FALSE},
     types     |-> {"play", "pause"},
     times     |-> {Fin(Sec(10))},
     reporters |-> {"s1"},
     reports   |-> {Paused(Sec(10)), Paused(Cs(1025)), Paused(Sec(11)),
                    Paused(Sec(12)), Paused(Sec(13)),
                    [timeSeconds |-> Fin(Sec(10)), isPlaying |-> TRUE,
                     playbackRate |-> Fin(Sec(1))]},
     maxSeq    |-> MaxSeqScheduler,
     instants  |-> SchedulerInstants,
     start     |-> ServerEpoch,
     emitDelays |-> {0}]

\* Two members and the tick: reports that are absent, fresh, exactly
\* REPORT_STALE_MS old and older.
Freshness ==
    [sockets   |-> {"s1", "s2"},
     roomCodes |-> {<<"A">>},
     rawCodes  |-> {<<"a">>},
     cbs       |-> {FALSE},
     types     |-> {"pause"},
     times     |-> {Fin(Sec(10))},
     reporters |-> {"s1", "s2"},
     reports   |-> {Paused(Cs(1025)), Paused(Sec(13))},
     maxSeq    |-> MaxSeqScheduler,
     instants  |-> {ServerEpoch, ServerEpoch + 500,
                    ServerEpoch + 500 + REPORT_STALE_MS},
     start     |-> ServerEpoch,
     emitDelays |-> {0}]

\* Two members and the tick at readings less than and exactly a cooldown
\* apart; a report that is in sync with a new room and one that
\* is not.
Cooldown ==
    [sockets   |-> {"s1", "s2"},
     roomCodes |-> {<<"A">>},
     rawCodes  |-> {<<"a">>},
     cbs       |-> {FALSE},
     types     |-> {"pause"},
     times     |-> {Fin(Sec(10))},
     reporters |-> {"s1", "s2"},
     reports   |-> {Paused(0), Paused(Sec(13))},
     maxSeq    |-> MaxSeqScheduler,
     instants  |-> {ServerEpoch, ServerEpoch + 500, ServerEpoch + CORRECT_COOLDOWN_MS},
     start     |-> ServerEpoch,
     emitDelays |-> {0}]

\* Two sockets, a play at 5 s, and a clock that is read at 0 and 2000 ms
\* after a room was created; emitPlaybackState's own reading of the clock
\* is the handler's or one millisecond later.
EndToEnd ==
    [sockets   |-> {"s1", "s2"},
     roomCodes |-> {<<"A">>},
     rawCodes  |-> {<<"a">>},
     cbs       |-> {FALSE, TRUE},
     types     |-> {"play"},
     times     |-> {Fin(Sec(5))},
     reporters |-> {"s2"},
     reports   |-> {Paused(Sec(5))},
     maxSeq    |-> MaxSeqEndToEnd,
     instants  |-> {0, 2000},
     start     |-> 0,
     emitDelays |-> {0, 1}]

\* A report of a member playing at 10 s at the given rate.
Playing(playbackRate) ==
    [timeSeconds |-> Fin(Sec(10)), isPlaying |-> TRUE, playbackRate |-> Fin(playbackRate)]

\* Two members, a room that is set playing from 10 s at rate 1, and the tick
\* less than and exactly a cooldown later: reports that agree with the
\* playing room and reports whose rate is 0.001 and 0.002 above the room's.
Correcting ==
    [sockets   |-> {"s1", "s2"},
     roomCodes |-> {<<"A">>},
     rawCodes  |-> {<<"a">>},
     cbs       |-> {FALSE},
     types     |-> {"play"},
     times     |-> {Fin(Sec(10))},
     reporters |-> {"s1", "s2"},
     reports   |-> {Playing(Sec(1)), Playing(Sec(1) + RateEpsilon),
                    Playing(Sec(1) + 2 * RateEpsilon)},
     maxSeq    |-> MaxSeqScheduler,
     instants  |-> {ServerEpoch, ServerEpoch + 500, ServerEpoch + CORRECT_COOLDOWN_MS},
     start     |-> ServerEpoch,
     emitDelays |-> {0}]

\* Two members that report values outside the valid ranges: a time and a
\* rate that are not finite, a negative time with a rate below 0.5, and a
\* rate above 2; the tick runs at the first reading of the clock and 500 ms
\* later.
Reporting ==
    [sockets   |-> {"s1", "s2"},
     roomCodes |-> {<<"A">>},
     rawCodes  |-> {<<"a">>},
     cbs       |-> {FALSE},
     types     |-> {"pause"},
     times     |-> {Fin(Sec(10))},
     reporters |-> {"s1", "s2"},
     reports   |-> {[timeSeconds |-> NotFinite, isPlaying |-> TRUE, playbackRate |-> NotFinite],
                    [timeSeconds |-> Fin(Sec(-5)), isPlaying |-> FALSE,
                     playbackRate |-> Fin(Cs(10))],
                    [timeSeconds |-> Fin(Sec(13)), isPlaying |-> FALSE,
                     playbackRate |-> Fin(Sec(5))]},
     maxSeq    |-> MaxSeqScheduler,
     instants  |-> {ServerEpoch, ServerEpoch + 500},
     start     |-> ServerEpoch,
     emitDelays |-> {0}]

Init == InitOf(Registry)
Next == NextOf(Registry)
Spec == Init /\ [][Next]_vars

\* Two rooms side by side under the tick: the sockets, codes, actions and
\* reports of TwoRooms, on a server whose clock is past the first cooldown.
Neighbours ==
    [TwoRooms EXCEPT !.instants = {ServerEpoch, ServerEpoch + 500},
                     !.start = ServerEpoch]

InitNeighbours == InitOf(Neighbours)
NextNeighbours == NextOf(Neighbours)
SpecNeighbours == InitNeighbours /\ [][NextNeighbours]_vars

InitTwoRooms == InitOf(TwoRooms)
NextTwoRooms == NextOf(TwoRooms)
SpecTwoRooms == InitTwoRooms /\ [][NextTwoRooms]_vars

InitCooldown == InitOf(Cooldown)
NextCooldown == NextOf(Cooldown)
SpecCooldown == InitCooldown /\ [][NextCooldown]_vars

InitEndToEnd == InitOf(EndToEnd)
NextEndToEnd == NextOf(EndToEnd)
SpecEndToEnd == InitEndToEnd /\ [][NextEndToEnd]_vars

InitDrift == InitOf(Drift)
NextDrift == NextOf(Drift)
SpecDrift == InitDrift /\ [][NextDrift]_vars

InitFreshness == InitOf(Freshness)
NextFreshness == NextOf(Freshness)
SpecFreshness == InitFreshness /\ [][NextFreshness]_vars

InitCorrecting == InitOf(Correcting)
NextCorrecting == NextOf(Correcting)
SpecCorrecting == InitCorrecting /\ [][NextCorrecting]_vars

InitReporting == InitOf(Reporting)
NextReporting == NextOf(Reporting)
SpecReporting == InitReporting /\ [][NextReporting]_vars

InitPlayback == InitOf(Playback)
NextPlayback == NextOf(Playback)
SpecPlayback == InitPlayback /\ [][NextPlayback]_vars

\* A room in an arbitrary stored playback state, read at an arbitrary
\* Date.now() (which is not monotonic: a reading may precede updatedAtMs).
Snapshot ==
    [sockets   |-> {"s1", "s2"},
     rawCodes  |-> {<<"a">>},
     cbs       |-> {FALSE, TRUE},
     instants  |-> {0, 1000, 3000, 5000},
     start     |-> 0,
     positions |-> {0, Cs(25), Sec(10)},
     rates     |-> {Cs(50), Sec(1), Cs(150), Sec(2)},
     updates   |-> {1000, 3000}]

InitSnapshot ==
    /\ \E pb \in [isPlaying       : BOOLEAN,
                  positionSeconds : Snapshot.positions,
                  playbackRate    : Snapshot.rates,
                  updatedAtMs     : Snapshot.updates,
                  seq             : {1}] :
         rooms = MapSet(EmptyMap, <<"A">>,
                        [NewRoom(<<"A">>, "s1", 0) EXCEPT !.playback = pb])
    /\ channels = MapSet(EmptyMap, <<"A">>, {"s1"})
    /\ live = Snapshot.sockets
    /\ now = Snapshot.start
    /\ out = {}
    /\ last = LastOp("init", NoSocket, NoCode, TRUE, "", NotFinite, {})
    /\ correctedAt = EmptyMap
    /\ client = NoClient

NextSnapshot ==
    \/ \E s \in Snapshot.sockets, raw \in Snapshot.rawCodes, hasCb \in Snapshot.cbs :
         PlaybackRequest(Snapshot, s, raw, hasCb) /\ ServerStep
    \/ Advance(Snapshot) /\ ServerStep

SpecSnapshot == InitSnapshot /\ [][NextSnapshot]_vars

----------------------------------------------------------------------------
(* The browser page of one member (src/app/room/[code]/page.tsx).  The      *)
(* variable client holds the refs and the state of RoomPage, what the page  *)
(* uses of its <video> element, the browser's pending timers, and the       *)
(* continuations of the handlers that wait for video.play() to settle.      *)
(* c is a value of client and the operators return the value after the      *)
(* code they model; Date.now() of the browser is c.now.                     *)

NoState == <<>>
NoTimer == 0
ClientCode == <<"A">>

\* line 88
suppressLocalEmits(c, ms) ==
    [c EXCEPT !.suppressEmitsUntil = Max(@, c.now + ms)]

shouldEmitUserEventByFlagOnly(c, isTrusted) ==
    /\ isTrusted
    /\ ~c.applyingRemote
    /\ ~(c.closed \/ c.error)

\* lines 92-98
shouldEmitUserEvent(c, isTrusted) ==
    /\ isTrusted
    /\ ~c.applyingRemote
    /\ ~(c.now < c.suppressEmitsUntil)
    /\ ~(c.closed \/ c.error)

\* lines 100-104
computeTargetTimeSeconds(c, state) ==
    LET ageMs == Max(0, c.now - state.serverTimeMs)
    IN  IF state.isPlaying
        THEN state.positionSeconds + (ageMs * state.playbackRate) \div 1000
        ELSE state.positionSeconds

clearCorrectionTimerRefOnly(c) ==
    [c EXCEPT !.correctionTimeout = NoTimer]

\* lines 106-111
clearCorrectionTimer(c) ==
    IF c.correctionTimeout # NoTimer
    THEN [c EXCEPT !.timers = {tm \in @ : tm.id # c.correctionTimeout},
                   !.cancelled = @ \cup {c.correctionTimeout},
                   !.correctionTimeout = NoTimer]
    ELSE c

\* setTimeout(callback, ms): the browser's next timer id, which is positive
setTimeout(c, kind, ms) ==
    [c EXCEPT !.timers = @ \cup {[id |-> c.nextTimerId, kind |-> kind,
                                  fireAt |-> c.now + ms, epoch |-> c.epoch]},
              !.nextTimerId = @ + 1]

\* History: a remote state or correction starts to be applied at c.now;
\* c.cancelled holds the ids that were passed to window.clearTimeout.
StartRemote(c) ==
    [c EXCEPT !.epoch = @ + 1, !.remoteStartedAt = <<c.now>>]

\* lines 173-177: the end of applyPlaybackStateToVideo
finishApply(c, state) ==
    setTimeout([c EXCEPT !.lastSeqApplied = state.seq], "release", 500)

\* lines 159-165: tryPlay has settled
afterTryPlay(c, state, ok) ==
    IF ok THEN [c EXCEPT !.blockedAutoplayState = NoState, !.needsGesture = FALSE]
    ELSE [c EXCEPT !.blockedAutoplayState = <<state>>, !.needsGesture = TRUE]

\* video.play() (line 45): a play that the browser allows clears paused at
\* once and its promise settles later; a blocked one leaves paused set.
callTryPlay(c, k) ==
    [c EXCEPT !.paused = IF k.ok THEN FALSE ELSE @,
              !.awaiting = @ \cup {k}]

applyPlaybackStateToVideoReapplying(c, state, ok) ==
    IF state.seq < c.lastSeqApplied THEN c
    ELSE IF ~c.ready \/ c.isUserSeeking THEN [c EXCEPT !.pendingState = <<state>>]
    ELSE
        LET targetTimeSeconds == computeTargetTimeSeconds(c, state)
            c1 == clearCorrectionTimer([c EXCEPT !.basePlaybackRate = state.playbackRate,
                                                 !.playbackRateUi = state.playbackRate])
            c2 == suppressLocalEmits(StartRemote([c1 EXCEPT !.playbackRate = state.playbackRate,
                                                            !.applyingRemote = TRUE]), 900)
            abs == Abs(targetTimeSeconds - c2.currentTime)
            threshold == IF state.isPlaying THEN Cs(50) ELSE Cs(12)
            c3 == IF abs > threshold
                  THEN [c2 EXCEPT !.currentTime = Max(0, targetTimeSeconds)] ELSE c2
        IN  IF state.isPlaying
            THEN IF c3.paused
                 THEN callTryPlay(c3, [of |-> "state", state |-> state, ok |-> ok])
                 ELSE finishApply(c3, state)
            ELSE finishApply([c3 EXCEPT !.paused = TRUE,
                                        !.blockedAutoplayState = NoState,
                                        !.needsGesture = FALSE], state)

\* applyPlaybackStateToVideo without the test of lines 126-129.
applyPlaybackStateToVideoWhileScrubbing(c, state, ok) ==
    IF state.seq <= c.lastSeqApplied THEN c
    ELSE IF ~c.ready THEN [c EXCEPT !.pendingState = <<state>>]
    ELSE
        LET targetTimeSeconds == computeTargetTimeSeconds(c, state)
            c1 == clearCorrectionTimer([c EXCEPT !.basePlaybackRate = state.playbackRate,
                                                 !.playbackRateUi = state.playbackRate])
            c2 == suppressLocalEmits(StartRemote([c1 EXCEPT !.playbackRate = state.playbackRate,
                                                            !.applyingRemote = TRUE]), 900)
            abs == Abs(targetTimeSeconds - c2.currentTime)
            threshold == IF state.isPlaying THEN Cs(50) ELSE Cs(12)
            c3 == IF abs > threshold
                  THEN [c2 EXCEPT !.currentTime = Max(0, targetTimeSeconds)] ELSE c2
        IN  IF state.isPlaying
            THEN IF c3.paused
                 THEN callTryPlay(c3, [of |-> "state", state |-> state, ok |-> ok])
                 ELSE finishApply(c3, state)
            ELSE finishApply([c3 EXCEPT !.paused = TRUE,
                                        !.blockedAutoplayState = NoState,
                                        !.needsGesture = FALSE], state)

\* lines 113-179, up to the first await or, without one, to the end.  ok is
\* whether the browser allows a play() the function may call.
applyPlaybackStateToVideo(c, state, ok) ==
    IF state.seq <= c.lastSeqApplied THEN c
    ELSE IF ~c.ready \/ c.isUserSeeking THEN [c EXCEPT !.pendingState = <<state>>]
    ELSE
        LET targetTimeSeconds == computeTargetTimeSeconds(c, state)
            c1 == clearCorrectionTimer([c EXCEPT !.basePlaybackRate = state.playbackRate,
                                                 !.playbackRateUi = state.playbackRate])
            c2 == suppressLocalEmits(StartRemote([c1 EXCEPT !.playbackRate = state.playbackRate,
                                                            !.applyingRemote = TRUE]), 900)
            abs == Abs(targetTimeSeconds - c2.currentTime)
            threshold == IF state.isPlaying THEN Cs(50) ELSE Cs(12)
            c3 == IF abs > threshold
                  THEN [c2 EXCEPT !.currentTime = Max(0, targetTimeSeconds)] ELSE c2
        IN  IF state.isPlaying
            THEN IF c3.paused
                 THEN callTryPlay(c3, [of |-> "state", state |-> state, ok |-> ok])
                 ELSE finishApply(c3, state)
            ELSE finishApply([c3 EXCEPT !.paused = TRUE,
                                        !.blockedAutoplayState = NoState,
                                        !.needsGesture = FALSE], state)

\* applyPendingIfPossible without the assignment of line 190.
applyPendingIfPossibleKeepingBuffer(c, ok) ==
    IF ~c.ready \/ c.isUserSeeking \/ c.pendingState = NoState THEN c
    ELSE applyPlaybackStateToVideo(c, c.pendingState[1], ok)

\* lines 181-193
applyPendingIfPossible(c, ok) ==
    IF ~c.ready \/ c.isUserSeeking \/ c.pendingState = NoState THEN c
    ELSE applyPlaybackStateToVideo([c EXCEPT !.pendingState = NoState],
                                   c.pendingState[1], ok)

\* The PlaybackState a correction stands for (lines 246-252, 269-275)
StateOfCorrection(payload) ==
    [isPlaying       |-> payload.isPlaying,
     positionSeconds |-> payload.targetTimeSeconds,
     playbackRate    |-> payload.playbackRate,
     seq             |-> payload.seq,
     serverTimeMs    |-> payload.serverTimeMs]

\* lines 327-329: the end of the playback:correct handler
finishCorrect(c) == setTimeout(c, "release", 400)

\* The end of the playback:correct handler without lines 268-277, 310-319.
afterTryPlayOfCorrectionForgetting(c, state, ok) == c

\* lines 268-277, 310-319: tryPlay has settled
afterTryPlayOfCorrection(c, state, ok) ==
    IF ok THEN c
    ELSE [c EXCEPT !.blockedAutoplayState = <<state>>, !.needsGesture = TRUE]

\* The playback:correct handler with a soft branch that seeks by the whole
\* drift and nudges the rate by a quarter of it without a cap.
onPlaybackCorrectUncapped(c, payload, ok) ==
    IF Normalize(payload.code) # ClientCode THEN c
    ELSE
        LET c1 == suppressLocalEmits(StartRemote([c EXCEPT !.applyingRemote = TRUE]), 900)
            c2 == [c1 EXCEPT !.basePlaybackRate = payload.playbackRate,
                             !.playbackRateUi = payload.playbackRate]
            state == StateOfCorrection(payload)
            target == computeTargetTimeSeconds(c2, state)
            diff == target - c2.currentTime
            abs == Abs(diff)
            c3 == clearCorrectionTimer(c2)
            hard == [c3 EXCEPT !.currentTime = Max(0, target),
                               !.playbackRate = payload.playbackRate]
            nudged == Max(Cs(50), Min(Sec(2), payload.playbackRate + diff \div 4))
            soft1 == IF abs > Cs(75)
                     THEN [c3 EXCEPT !.currentTime = Max(0, @ + diff)] ELSE c3
            soft == [setTimeout([soft1 EXCEPT !.playbackRate = nudged], "revert", 1200)
                        EXCEPT !.correctionTimeout = soft1.nextTimerId]
            c4 == IF payload.mode = "hard" \/ abs >= Sec(2) THEN hard ELSE soft
        IN  IF payload.isPlaying
            THEN IF c4.paused
                 THEN callTryPlay(c4, [of |-> "correct", state |-> state, ok |-> ok])
                 ELSE finishCorrect(c4)
            ELSE finishCorrect([c4 EXCEPT !.paused = TRUE])

\* The playback:correct handler with the test of line 259 reduced to the
\* payload's mode.
onPlaybackCorrectByModeOnly(c, payload, ok) ==
    IF Normalize(payload.code) # ClientCode THEN c
    ELSE
        LET c1 == suppressLocalEmits(StartRemote([c EXCEPT !.applyingRemote = TRUE]), 900)
            c2 == [c1 EXCEPT !.basePlaybackRate = payload.playbackRate,
                             !.playbackRateUi = payload.playbackRate]
            state == StateOfCorrection(payload)
            target == computeTargetTimeSeconds(c2, state)
            diff == target - c2.currentTime
            abs == Abs(diff)
            c3 == clearCorrectionTimer(c2)
            hard == [c3 EXCEPT !.currentTime = Max(0, target),
                               !.playbackRate = payload.playbackRate]
            partial == Max(-Cs(50), Min(Cs(50), diff \div 2))
            nudge == Max(-Cs(35), Min(Cs(35), diff \div 4))
            nudged == Max(Cs(50), Min(Sec(2), payload.playbackRate + nudge))
            soft1 == IF abs > Cs(75)
                     THEN [c3 EXCEPT !.currentTime = Max(0, @ + partial)] ELSE c3
            soft == [setTimeout([soft1 EXCEPT !.playbackRate = nudged], "revert", 1200)
                        EXCEPT !.correctionTimeout = soft1.nextTimerId]
            c4 == IF payload.mode = "hard" THEN hard ELSE soft
        IN  IF payload.isPlaying
            THEN IF c4.paused
                 THEN callTryPlay(c4, [of |-> "correct", state |-> state, ok |-> ok])
                 ELSE finishCorrect(c4)
            ELSE finishCorrect([c4 EXCEPT !.paused = TRUE])

\* lines 232-330, up to the first await or, without one, to the end.  The
\* halves and quarters of the drift are rounded down to 10^-5 s.
onPlaybackCorrect(c, payload, ok) ==
    IF Normalize(payload.code) # ClientCode THEN c
    ELSE
        LET c1 == suppressLocalEmits(StartRemote([c EXCEPT !.applyingRemote = TRUE]), 900)
            c2 == [c1 EXCEPT !.basePlaybackRate = payload.playbackRate,
                             !.playbackRateUi = payload.playbackRate]
            state == StateOfCorrection(payload)
            target == computeTargetTimeSeconds(c2, state)
            diff == target - c2.currentTime
            abs == Abs(diff)
            c3 == clearCorrectionTimer(c2)
            hard == [c3 EXCEPT !.currentTime = Max(0, target),
                               !.playbackRate = payload.playbackRate]
            partial == Max(-Cs(50), Min(Cs(50), diff \div 2))
            nudge == Max(-Cs(35), Min(Cs(35), diff \div 4))
            nudged == Max(Cs(50), Min(Sec(2), payload.playbackRate + nudge))
            soft1 == IF abs > Cs(75)
                     THEN [c3 EXCEPT !.currentTime = Max(0, @ + partial)] ELSE c3
            soft == [setTimeout([soft1 EXCEPT !.playbackRate = nudged], "revert", 1200)
                        EXCEPT !.correctionTimeout = soft1.nextTimerId]
            c4 == IF payload.mode = "hard" \/ abs >= Sec(2) THEN hard ELSE soft
        IN  IF payload.isPlaying
            THEN IF c4.paused
                 THEN callTryPlay(c4, [of |-> "correct", state |-> state, ok |-> ok])
                 ELSE finishCorrect(c4)
            ELSE finishCorrect([c4 EXCEPT !.paused = TRUE])

\* lines 298-304, 175-177, 327-329 and 628: the callbacks of the timers.  The
\* timer of the file input carries whether the browser allows the play() its
\* callback may call.
onTimeout(c, tm) ==
    LET c1 == [c EXCEPT !.timers = @ \ {tm}]
    IN  CASE tm.kind = "revert" ->
               [c1 EXCEPT !.playbackRate = c.basePlaybackRate,
                          !.applyingRemote = FALSE,
                          !.correctionTimeout = NoTimer]
          [] tm.kind = "applyPending" -> applyPendingIfPossible(c1, tm.ok)
          [] OTHER -> [c1 EXCEPT !.applyingRemote = FALSE]

\* socket.emit("playback:action", ...) of lines 398, 404, 421
ActionOf(c, type) ==
    [ev |-> "playback:action",
     data |-> [code |-> ClientCode, type |-> type, timeSeconds |-> c.currentTime]]

\* lines 395-423: the listeners of play, pause, seeking and seeked.  The
\* result is the page and what the listener emitted.
onMediaEvent(c, kind, isTrusted, ok) ==
    LET emits == shouldEmitUserEvent(c, isTrusted)
        quiet == [page |-> c, sent |-> {}]
    IN  CASE kind \in {"play", "pause"} ->
               IF emits
               THEN [page |-> [c EXCEPT !.pendingState = NoState],
                     sent |-> {ActionOf(c, kind)}]
               ELSE quiet
          [] kind = "seeking" ->
               IF isTrusted THEN [page |-> [c EXCEPT !.isUserSeeking = TRUE], sent |-> {}]
               ELSE quiet
          [] OTHER ->
               IF ~isTrusted THEN quiet
               ELSE LET c1 == [c EXCEPT !.isUserSeeking = FALSE]
                    IN  IF emits
                        THEN [page |-> applyPendingIfPossible(
                                          [c1 EXCEPT !.pendingState = NoState], ok),
                              sent |-> {ActionOf(c, "seek")}]
                        ELSE [page |-> applyPendingIfPossible(c1, ok), sent |-> {}]

\* What the page did last, and with which input.
LastClient(op, kind, isTrusted, payload) ==
    [op |-> op, kind |-> kind, isTrusted |-> isTrusted, payload |-> payload]

\* The exploration stops at P.maxRemote applied states and corrections.
Within(P, c) == c.epoch <= P.maxRemote

\* History: the state or correction a step starts to apply, which is its
\* payload or, for a step that empties the buffer, the buffered state.
AppliedBy(c, lastOp) ==
    IF lastOp.op \in {"playback:state", "playback:request", "playback:correct"}
    THEN lastOp.payload
    ELSE client.pendingState[1]

\* A step of the page: the server is not part of these environments.
\* c.heardIsPlaying is the isPlaying of the last state or correction that
\* was started.
ClientStep(c, sent, lastOp) ==
    /\ client' = [c EXCEPT !.sent = sent, !.last = lastOp,
                           !.heardIsPlaying = IF c.epoch > client.epoch
                                              THEN <<AppliedBy(c, lastOp).isPlaying>>
                                              ELSE @]
    /\ UNCHANGED <<rooms, channels, live, now, out, last, correctedAt>>

\* socket.on("playback:state") (lines 224-226) and the callback of the
\* connect-time playback:request (lines 202-204)
ReceiveState(P, state, ok) ==
    /\ Within(P, applyPlaybackStateToVideo(client, state, ok))
    /\ ClientStep(applyPlaybackStateToVideo(client, state, ok), {},
                  LastClient("playback:state", "", TRUE, state))

\* The callback of the periodic playback:request (lines 354-358)
ReceivePolledState(P, state, ok) ==
    /\ Within(P, applyPlaybackStateToVideo(client, state, ok))
    /\ LET target == computeTargetTimeSeconds(client, state)
           diff == Abs(target - client.currentTime)
       IN  ClientStep(IF diff > Sec(1) THEN applyPlaybackStateToVideo(client, state, ok)
                      ELSE client,
                      {}, LastClient("playback:request", "", TRUE, state))

\* socket.on("playback:correct") (lines 232-330)
ReceiveCorrect(P, payload, ok) ==
    /\ Within(P, onPlaybackCorrect(client, payload, ok))
    /\ ClientStep(onPlaybackCorrect(client, payload, ok), {},
                  LastClient("playback:correct", "", TRUE, payload))

\* lines 531-535: tryPlay has settled in the handler of "Start playback"
afterTryPlayOfGesture(c, ok) ==
    IF ok THEN [c EXCEPT !.blockedAutoplayState = NoState, !.needsGesture = FALSE]
    ELSE c

\* The promise of video.play() settles and the handler that awaited it
\* runs to its end (lines 159-177, 268-277, 310-319, 327-329, 531-535).
PlaySettled ==
    \E k \in client.awaiting :
        LET c1 == [client EXCEPT !.awaiting = @ \ {k}]
        IN  ClientStep(CASE k.of = "state" ->
                              finishApply(afterTryPlay(c1, k.state, k.ok), k.state)
                         [] k.of = "gesture" -> afterTryPlayOfGesture(c1, k.ok)
                         [] OTHER ->
                              finishCorrect(afterTryPlayOfCorrection(c1, k.state, k.ok)),
                       {}, LastClient("settled", k.of, k.ok, k.state))

\* A timer whose delay has passed runs its callback.
TimerFires ==
    \E tm \in client.timers :
        /\ client.now >= tm.fireAt
        /\ ClientStep(onTimeout(client, tm), {}, LastClient("timeout", tm.kind, TRUE, tm))

\* A play, pause, seeking or seeked event reaches its listener.  isTrusted is
\* false for an event that a script dispatched.
MediaEvent(P, kind, isTrusted, ok) ==
    /\ LET r == onMediaEvent(client, kind, isTrusted, ok)
       IN  Within(P, r.page) /\ ClientStep(r.page, r.sent, LastClient("media", kind, isTrusted, NoState))

\* The viewer uses the controls of the <video> element.
UserControl(P, kind, timeSeconds) ==
    /\ client.ready
    /\ ClientStep(CASE kind = "play"  -> [client EXCEPT !.paused = FALSE]
                    [] kind = "pause" -> [client EXCEPT !.paused = TRUE]
                    [] OTHER          -> [client EXCEPT !.currentTime = timeSeconds],
                  {}, LastClient("user", kind, TRUE, NoState))

\* onLoadedMetadata (line 504)
LoadedMetadata(P, ok) ==
    /\ ~client.ready
    /\ Within(P, applyPendingIfPossible([client EXCEPT !.ready = TRUE], ok))
    /\ ClientStep(applyPendingIfPossible([client EXCEPT !.ready = TRUE], ok), {},
                  LastClient("loadedmetadata", "", TRUE, NoState))

\* room:closed and room:error (lines 212-218), once rendered
RoomClosedOrError(kind) ==
    /\ ~client.closed /\ ~client.error
    /\ ClientStep(IF kind = "closed" THEN [client EXCEPT !.closed = TRUE]
                  ELSE [client EXCEPT !.error = TRUE],
                  {}, LastClient("room", kind, TRUE, NoState))

\* lines 521-531: the click on "Start playback", up to the await.  The
\* button is rendered while needsGesture is set.
onStartPlayback(c, ok) ==
    IF c.blockedAutoplayState = NoState THEN c
    ELSE LET desired == c.blockedAutoplayState[1]
             c1 == [c EXCEPT !.currentTime = Max(0, computeTargetTimeSeconds(c, desired))]
         IN  callTryPlay(c1, [of |-> "gesture", state |-> desired, ok |-> ok])

StartPlaybackClicked(P, ok) ==
    /\ client.needsGesture
    /\ ClientStep(onStartPlayback(client, ok), {},
                  LastClient("click", "start", ok, client.blockedAutoplayState))

\* lines 563-574: the speed slider.  The result is the page and what the
\* handler emitted.
onSpeedChange(c, value) ==
    LET next == Min(Sec(2), Max(Cs(50), value))
    IN  [page |-> [c EXCEPT !.playbackRateUi = next,
                            !.basePlaybackRate = next,
                            !.playbackRate = next],
         sent |-> {[ev |-> "playback:action",
                    data |-> [code |-> ClientCode, type |-> "rate", timeSeconds |-> next]]}]

SpeedChanged(P, value) ==
    LET r == onSpeedChange(client, value)
    IN  ClientStep(r.page, r.sent, LastClient("speed", "", TRUE, <<value>>))

\* lines 604-629 and 383-388: the viewer chooses a file.  The handler arms a
\* timer of 0 ms for applyPendingIfPossible, the new videoUrl runs the
\* cleanup of the effect, which clears the correction timer, and the
\* <video> loads its new src: it has no metadata, is paused at 0, the
\* promises of its pending play() calls are rejected, and its playbackRate
\* is kept or is set back to the default rate, as the browser decides.
onChooseVideo(c, ok, keepsRate) ==
    LET c1 == [c EXCEPT !.timers = @ \cup {[id |-> c.nextTimerId, kind |-> "applyPending",
                                            fireAt |-> c.now, epoch |-> c.epoch,
                                            ok |-> ok]},
                        !.nextTimerId = @ + 1,
                        !.files = @ + 1]
        c2 == clearCorrectionTimer(c1)
    IN  [c2 EXCEPT !.ready = FALSE,
                   !.paused = TRUE,
                   !.currentTime = 0,
                   !.playbackRate = IF keepsRate THEN @ ELSE Sec(1),
                   !.awaiting = {[k EXCEPT !.ok = FALSE] : k \in @}]

VideoChosen(P, ok, keepsRate) ==
    /\ client.files < P.maxFiles
    /\ ClientStep(onChooseVideo(client, ok, keepsRate), {},
                  LastClient("file", "", keepsRate, NoState))

\* The browser's clock moves on to a later reading; a video that is playing
\* moves on with it at its playback rate.
ClientAdvance(P) ==
    \E t \in P.instants :
        /\ t > client.now
        /\ ClientStep([client EXCEPT
                          !.now = t,
                          !.currentTime = IF client.paused THEN @
                                          ELSE @ + ((t - client.now) * client.playbackRate) \div 1000],
                      {}, LastClient("clock", "", TRUE, NoState))

InitClientOf(P) ==
    /\ rooms = EmptyMap
    /\ channels = EmptyMap
    /\ live = {}
    /\ now = 0
    /\ out = {}
    /\ last = LastOp("init", NoSocket, NoCode, TRUE, "", NotFinite, {})
    /\ correctedAt = EmptyMap
    /\ client = [now                  |-> P.start,
                 ready                |-> FALSE,
                 currentTime          |-> 0,
                 paused               |-> TRUE,
                 playbackRate         |-> Sec(1),
                 applyingRemote       |-> FALSE,
                 suppressEmitsUntil   |-> 0,
                 isUserSeeking        |-> FALSE,
                 pendingState         |-> NoState,
                 lastSeqApplied       |-> -1,
                 blockedAutoplayState |-> NoState,
                 basePlaybackRate     |-> Sec(1),
                 correctionTimeout    |-> NoTimer,
                 playbackRateUi       |-> Sec(1),
                 needsGesture         |-> FALSE,
                 closed               |-> FALSE,
                 error                |-> FALSE,
                 timers               |-> {},
                 nextTimerId          |-> 1,
                 awaiting             |-> {},
                 epoch                |-> 0,
                 files                |-> 0,
                 heardIsPlaying       |-> <<>>,
                 cancelled            |-> {},
                 remoteStartedAt      |-> <<>>,
                 sent                 |-> {},
                 last                 |-> LastClient("init", "", TRUE, NoState)]

\* The steps every environment of the page has.
NextClientOf(P) ==
    \/ \E state \in P.states, ok \in P.plays : ReceiveState(P, state, ok)
    \/ \E payload \in P.corrections, ok \in P.plays : ReceiveCorrect(P, payload, ok)
    \/ PlaySettled
    \/ TimerFires
    \/ \E kind \in P.mediaKinds, isTrusted \in P.trust, ok \in P.plays :
          MediaEvent(P, kind, isTrusted, ok)
    \/ \E ok \in P.plays : LoadedMetadata(P, ok)
    \/ ClientAdvance(P)

MaxRemote == 2
MaxRemoteEcho == 1

\* The payloads a page of room A receives: an authoritative state of the
\* given seq at 1 s, and a correction towards 1.5 s at rate 1.5, which is
\* less than 2 s from the start of the video and from 1 s.
StateAt(seq, isPlaying) ==
    [isPlaying |-> isPlaying, positionSeconds |-> Sec(1), playbackRate |-> Sec(1),
     seq |-> seq, serverTimeMs |-> 0]

CorrectionFor(code, mode, isPlaying) ==
    [code |-> code, targetTimeSeconds |-> Cs(150), isPlaying |-> isPlaying,
     playbackRate |-> Cs(150), seq |-> 2, serverTimeMs |-> 0, mode |-> mode,
     toleranceSeconds |-> SYNC_TOLERANCE_SECONDS]

\* The page and its timers: states of two seqs, pushed and polled, soft and
\* hard corrections, a correction for another room, a viewer who scrubs,
\* and a clock that is read at the delays of the timers (400, 500, 1200 ms).
Reconciler ==
    [states      |-> {StateAt(1, FALSE), StateAt(2, TRUE)},
     corrections |-> {CorrectionFor(<<"a">>, "soft", FALSE),
                      CorrectionFor(<<"a">>, "hard", TRUE),
                      CorrectionFor(<<"B">>, "hard", TRUE)},
     plays       |-> BOOLEAN,
     mediaKinds  |-> {"seeking", "seeked"},
     trust       |-> {TRUE},
     instants    |-> {0, 400, 1200},
     start       |-> 0,
     maxRemote   |-> MaxRemote]

InitReconciler == InitClientOf(Reconciler)
NextReconciler ==
    \/ NextClientOf(Reconciler)
    \/ \E state \in Reconciler.states, ok \in Reconciler.plays :
          ReceivePolledState(Reconciler, state, ok)
SpecReconciler == InitReconciler /\ [][NextReconciler]_vars

\* The page and the events of its <video>: trusted and untrusted play,
\* pause, seeking and seeked events, a viewer at the controls, a room that
\* closes or fails, and a clock read inside and at the end of the 900 ms of
\* suppression.
Echo ==
    [states      |-> {StateAt(1, FALSE)},
     corrections |-> {CorrectionFor(<<"a">>, "soft", TRUE)},
     plays       |-> {TRUE},
     mediaKinds  |-> {"play", "pause", "seeking", "seeked"},
     trust       |-> BOOLEAN,
     userKinds   |-> {"play", "pause", "seek"},
     seeks       |-> {Sec(20)},
     roomKinds   |-> {"closed", "error"},
     instants    |-> {0, 500, 900},
     start       |-> 0,
     maxRemote   |-> MaxRemoteEcho]

InitEcho == InitClientOf(Echo)
NextEcho ==
    \/ NextClientOf(Echo)
    \/ \E kind \in Echo.userKinds, timeSeconds \in Echo.seeks :
          UserControl(Echo, kind, timeSeconds)
    \/ \E kind \in Echo.roomKinds : RoomClosedOrError(kind)
SpecEcho == InitEcho /\ [][NextEcho]_vars

\* The page and a play() that takes time to settle: a playing state of seq
\* 1, a paused state of seq 2, delivered in any order and any number of
\* times, and a correction that pauses.
Ordering ==
    [states      |-> {StateAt(1, TRUE), StateAt(2, FALSE)},
     corrections |-> {CorrectionFor(<<"a">>, "soft", FALSE)},
     plays       |-> BOOLEAN,
     mediaKinds  |-> {"seeking", "seeked"},
     trust       |-> {TRUE},
     instants    |-> {0, 500},
     start       |-> 0,
     maxRemote   |-> MaxRemote]

InitOrdering == InitClientOf(Ordering)
NextOrdering == NextClientOf(Ordering)
SpecOrdering == InitOrdering /\ [][NextOrdering]_vars

\* The page, its buffer and the viewer: states of two seqs, a correction,
\* trusted play, pause, seeking and seeked events, and a clock that is read
\* inside and after the 900 ms of suppression.
Buffering ==
    [states      |-> {StateAt(1, FALSE), StateAt(2, TRUE)},
     corrections |-> {CorrectionFor(<<"a">>, "hard", FALSE)},
     plays       |-> {TRUE},
     mediaKinds  |-> {"play", "pause", "seeking", "seeked"},
     trust       |-> {TRUE},
     instants    |-> {0, 900},
     start       |-> 0,
     maxRemote   |-> MaxRemote]

InitBuffering == InitClientOf(Buffering)
NextBuffering == NextClientOf(Buffering)
SpecBuffering == InitBuffering /\ [][NextBuffering]_vars

\* A correction of room A towards targetTimeSeconds at playbackRate, of the
\* snapshot whose seq is seq.
CorrectionTo(targetTimeSeconds, playbackRate, seq, mode, isPlaying) ==
    [code |-> <<"a">>, targetTimeSeconds |-> targetTimeSeconds, isPlaying |-> isPlaying,
     playbackRate |-> playbackRate, seq |-> seq, serverTimeMs |-> 0, mode |-> mode,
     toleranceSeconds |-> SYNC_TOLERANCE_SECONDS]

\* The page and the corrections of a snapshot older than the state it has
\* applied: a paused state of seq 2 at 1 s, and corrections of seq 1 that
\* are 0.5 s, 0.75 s, 1 s, 1.5 s, 2 s and 3 s from the start of the video or
\* from 1 s, ahead of the video and behind it, at rates in the middle and at
\* both ends of [0.5, 2.0].
Nudging ==
    [states      |-> {StateAt(2, FALSE)},
     corrections |-> {CorrectionTo(Cs(150), Cs(150), 1, "soft", FALSE),
                      CorrectionTo(Cs(175), Sec(2), 1, "soft", TRUE),
                      CorrectionTo(0, Cs(50), 1, "soft", FALSE),
                      CorrectionTo(Sec(2), Sec(1), 1, "soft", TRUE),
                      CorrectionTo(Sec(4), Sec(1), 1, "soft", FALSE),
                      CorrectionTo(Cs(150), Sec(1), 1, "hard", TRUE),
                      CorrectionTo(Cs(150), Cs(150), 1, "hard", FALSE)},
     plays       |-> {TRUE},
     mediaKinds  |-> {"seeked"},
     trust       |-> {TRUE},
     instants    |-> {0, 1200},
     start       |-> 0,
     maxRemote   |-> MaxRemote]

InitNudging == InitClientOf(Nudging)
NextNudging == NextClientOf(Nudging)
SpecNudging == InitNudging /\ [][NextNudging]_vars

MaxFiles == 1

\* The page, its speed slider and its file input: a paused state, a pausing
\* soft and a playing hard correction at rate 1.5, a viewer who moves the slider to either
\* end and chooses a file, and a clock that is read when the revert timer
\* is due (1200 ms).
Tuning ==
    [states      |-> {StateAt(1, FALSE)},
     corrections |-> {CorrectionFor(<<"a">>, "soft", FALSE),
                      CorrectionFor(<<"a">>, "hard", TRUE)},
     plays       |-> {TRUE},
     mediaKinds  |-> {"seeked"},
     trust       |-> {TRUE},
     speeds      |-> {Cs(50), Sec(2)},
     keeps       |-> BOOLEAN,
     instants    |-> {0, 1200},
     start       |-> 0,
     maxFiles    |-> MaxFiles,
     maxRemote   |-> MaxRemote]

InitTuning == InitClientOf(Tuning)
NextTuning ==
    \/ NextClientOf(Tuning)
    \/ \E value \in Tuning.speeds : SpeedChanged(Tuning, value)
    \/ \E ok \in Tuning.plays, keepsRate \in Tuning.keeps :
          VideoChosen(Tuning, ok, keepsRate)
SpecTuning == InitTuning /\ [][NextTuning]_vars

\* The page and the browser's autoplay policy: a playing state of seq 1 and
\* a paused one of seq 2, a playing and a pausing correction, play() calls
\* that are allowed or rejected and settle later, and a viewer who clicks
\* "Start playback".
Autoplay ==
    [states      |-> {StateAt(1, TRUE), StateAt(2, FALSE)},
     corrections |-> {CorrectionFor(<<"a">>, "hard", TRUE),
                      CorrectionFor(<<"a">>, "soft", FALSE)},
     plays       |-> BOOLEAN,
     mediaKinds  |-> {"seeked"},
     trust       |-> {TRUE},
     instants    |-> {0, 500},
     start       |-> 0,
     maxRemote   |-> MaxRemote]

InitAutoplay == InitClientOf(Autoplay)
NextAutoplay ==
    \/ NextClientOf(Autoplay)
    \/ \E ok \in Autoplay.plays : StartPlaybackClicked(Autoplay, ok)
SpecAutoplay == InitAutoplay /\ [][NextAutoplay]_vars

----------------------------------------------------------------------------
(* The server that closes a room when its host leaves: the first listing  *)
(* of server/src/index.ts (lines 1-142).  Its rooms have a code, a host   *)
(* and members; createUniqueRoomCode and emitRoomInfo are those of the    *)
(* second listing, word for word.                                         *)

\* lines 64-68
HostedRoom(code, s) ==
    [code |-> code, hostSocketId |-> s, sockets |-> <<s>>]

\* room:create (lines 62-75)
HostedCreate(P, s) ==
    /\ s \in live
    /\ \E g \in createUniqueRoomCode(P, rooms) :
          LET rs == MapSet(rooms, g.code, HostedRoom(g.code, s))
              ch == SocketJoin(channels, g.code, s)
          IN  /\ rooms' = rs
              /\ channels' = ch
              /\ out' = {ToSocket(s, "room:created", [code |-> g.code])}
                        \cup emitRoomInfo(rs, ch, g.code)
              /\ last' = LastOp("room:create", s, g.code, TRUE, "", NotFinite, {g.via})
    /\ UNCHANGED <<live, now>>

\* room:join (lines 77-91)
HostedJoin(P, s, raw) ==
    /\ s \in live
    /\ LET normalized == Normalize(raw)
       IN  IF normalized \notin DOMAIN rooms
           THEN /\ out' = {ToSocket(s, "room:error", [message |-> "Room not found"])}
                /\ last' = LastOp("room:join", s, normalized, FALSE, "", NotFinite, {})
                /\ UNCHANGED <<rooms, channels>>
           ELSE LET room == rooms[normalized]
                    rs == [rooms EXCEPT ![normalized].sockets = SetAdd(@, s)]
                    ch == SocketJoin(channels, room.code, s)
                IN  /\ rooms' = rs
                    /\ channels' = ch
                    /\ out' = {ToSocket(s, "room:joined", [code |-> room.code])}
                              \cup emitRoomInfo(rs, ch, room.code)
                    /\ last' = LastOp("room:join", s, normalized, TRUE, "", NotFinite, {})
    /\ UNCHANGED <<live, now>>

\* sync:action and sync:status (lines 93-113): the host's event is relayed to
\* the others of the socket.io room; the code is looked up as it was sent.
SyncRelay(P, s, raw, ev, data) ==
    /\ s \in live
    /\ LET relayed == raw \in DOMAIN rooms /\ rooms[raw].hostSocketId = s
       IN  /\ out' = IF relayed
                     THEN {[ToRoom(channels, raw, ev, data) EXCEPT !.rcpt = @ \ {s}]}
                     ELSE {}
           /\ last' = LastOp(ev, s, raw, relayed, "", NotFinite, {})
    /\ UNCHANGED <<rooms, channels, live, now>>

\* One iteration of the disconnect loop with the host promoted as in the
\* second listing.
leaveOrPromote(room, s) ==
    LET r == [room EXCEPT !.sockets = SetDelete(@, s)]
    IN  [keep   |-> r.sockets # <<>>,
         closed |-> FALSE,
         room   |-> IF room.hostSocketId = s /\ r.sockets # <<>>
                    THEN [r EXCEPT !.hostSocketId = Head(r.sockets)] ELSE r]

\* One iteration of the disconnect loop (lines 116-134) for a room that
\* contains the socket: keep tells whether the room stays in the registry,
\* closed whether room:closed is emitted.
leaveOrClose(room, s) ==
    LET r == [room EXCEPT !.sockets = SetDelete(@, s)]
    IN  [keep   |-> room.hostSocketId # s /\ r.sockets # <<>>,
         closed |-> room.hostSocketId = s,
         room   |-> r]

\* disconnect (lines 115-135)
HostedDisconnect(s) ==
    /\ s \in live
    /\ LET ch == SocketLeaveAll(channels, s)
           hit == {c \in DOMAIN rooms : SetHas(rooms[c].sockets, s)}
           kept == {c \in DOMAIN rooms : c \in hit => leaveOrClose(rooms[c], s).keep}
           rs == [c \in kept |-> IF c \in hit THEN leaveOrClose(rooms[c], s).room
                                 ELSE rooms[c]]
       IN  /\ rooms' = rs
           /\ channels' = ch
           /\ out' = {ToRoom(ch, c, "room:closed", <<>>) :
                         c \in {x \in hit : leaveOrClose(rooms[x], s).closed}}
                     \cup UNION {emitRoomInfo(rs, ch, c) : c \in hit \cap kept}
           /\ last' = LastOp("disconnect", s, NoCode, TRUE, "", NotFinite,
                             {"closed" : c \in {x \in hit : leaveOrClose(rooms[x], s).closed}})
    /\ live' = live \ {s}
    /\ UNCHANGED now

\* Three sockets and two room codes; the host relays a play and a status.
Closing ==
    [sockets   |-> {"s1", "s2", "s3"},
     roomCodes |-> {<<"A">>, <<"B">>},
     rawCodes  |-> {<<"a">>, <<"B">>},
     relays    |-> {[ev |-> "sync:action", data |-> [action |-> "play", time |-> 0]],
                    [ev |-> "sync:status", data |-> [currentTime |-> 0, isPlaying |-> TRUE]]},
     start     |-> 0]

InitClosing == InitOf(Closing)
NextClosing ==
    \/ \E s \in Closing.sockets : HostedCreate(Closing, s) /\ ServerStep
    \/ \E s \in Closing.sockets, raw \in Closing.rawCodes :
          HostedJoin(Closing, s, raw) /\ ServerStep
    \/ \E s \in Closing.sockets, raw \in Closing.rawCodes, r \in Closing.relays :
          SyncRelay(Closing, s, raw, r.ev, r.data) /\ ServerStep
    \/ \E s \in Closing.sockets : HostedDisconnect(s) /\ ServerStep
SpecClosing == InitClosing /\ [][NextClosing]_vars

----------------------------------------------------------------------------
(* Properties. *)

\* The sockets of a room.
Members(room) == SetOf(room.sockets)

\* The playback snapshots carried by a set of messages.
SnapshotOf(d) ==
    [isPlaying |-> d.isPlaying, positionSeconds |-> d.positionSeconds,
     playbackRate |-> d.playbackRate, seq |-> d.seq, serverTimeMs |-> d.serverTimeMs]

SnapshotsIn(msgs) ==
    {SnapshotOf(m.data) : m \in {x \in msgs : x.ev = "playback:state"}}
    \cup {SnapshotOf(m.data.value) :
            m \in {x \in msgs : x.ev = "cb" /\ x.data.of = "playback:request"}}

\* C1: every accepted playback:action (any type, with or without a finite
\* timeSeconds, whether or not it changes a value) leaves the room's seq
\* exactly one greater; no other step changes the seq of a room that stays
\* in the registry, so seq never decreases or repeats during a room's life.
C1_SeqIncrementsByOne ==
    [][\A c \in DOMAIN rooms :
          /\ (/\ last'.op = "playback:action"
              /\ last'.code = c
              /\ last'.socket \in Members(rooms[c]))
             => /\ c \in DOMAIN rooms'
                /\ rooms'[c].playback.seq = rooms[c].playback.seq + 1
          /\ (/\ c \in DOMAIN rooms'
              /\ ~(last'.op = "room:create" /\ last'.code = c)
              /\ ~(/\ last'.op = "playback:action"
                   /\ last'.code = c
                   /\ last'.socket \in Members(rooms[c])))
             => rooms'[c].playback.seq = rooms[c].playback.seq]_vars

\* C1 witness: an accepted seek without a finite time (it changes no value)
\* has brought a room's seq to 2.
C1_Witness ==
    /\ last.op = "playback:action" /\ last.ok
    /\ last.type = "seek" /\ last.time = NotFinite
    /\ rooms[last.code].playback.seq = 2

\* C2: the stored positionSeconds of every room, its projection at every
\* clock reading, and every position sent in a playback:state, a
\* playback:request reply or a playback:correct are >= 0; after an accepted
\* seek, play or pause that carries a negative time the stored position is 0.
C2_PositionNeverNegative ==
    /\ \A c \in DOMAIN rooms :
          /\ rooms[c].playback.positionSeconds >= 0
          /\ \A t \in Playback.instants :
                t >= now => getPlaybackSnapshot(rooms[c], t).positionSeconds >= 0
    /\ \A snap \in SnapshotsIn(out) : snap.positionSeconds >= 0
    /\ \A m \in out : m.ev = "playback:correct" => m.data.targetTimeSeconds >= 0
    /\ (/\ last.op = "playback:action" /\ last.ok
        /\ last.type \in {"seek", "play", "pause"}
        /\ NumberIsFinite(last.time) /\ last.time[1] < 0)
       => /\ rooms[last.code].playback.positionSeconds = 0
          /\ \A snap \in SnapshotsIn(out) : snap.positionSeconds = 0

\* C2 witness: a seek to -5 s was accepted in a room that had been playing
\* for a while, and the position is 0.
C2_Witness ==
    /\ last.op = "playback:action" /\ last.ok
    /\ last.type = "seek" /\ last.time = Fin(Sec(-5))
    /\ now > 0
    /\ rooms[last.code].playback.isPlaying
    /\ rooms[last.code].playback.positionSeconds = 0

\* C3: playbackRate of every room is within [0.5, 2.0]; an accepted rate
\* action sets it to 2.0 when the requested value is above 2.0, to 0.5 when
\* it is below 0.5 (0 and negative values included), and leaves it alone when
\* the value is not finite; no step other than a rate action changes the
\* rate of a room that stays in the registry.
C3_RateClamped ==
    [][/\ \A c \in DOMAIN rooms' :
            /\ rooms'[c].playback.playbackRate >= Cs(50)
            /\ rooms'[c].playback.playbackRate <= Sec(2)
       /\ \A c \in (DOMAIN rooms) \cap (DOMAIN rooms') :
            LET before == rooms[c].playback.playbackRate
                after == rooms'[c].playback.playbackRate
                rateAction == /\ last'.op = "playback:action"
                              /\ last'.code = c
                              /\ last'.socket \in Members(rooms[c])
                              /\ last'.type = "rate"
            IN  IF rateAction
                THEN /\ ~NumberIsFinite(last'.time) => after = before
                     /\ (NumberIsFinite(last'.time) /\ last'.time[1] > Sec(2))
                        => after = Sec(2)
                     /\ (NumberIsFinite(last'.time) /\ last'.time[1] < Cs(50))
                        => after = Cs(50)
                ELSE \/ last'.op = "room:create" /\ last'.code = c
                     \/ after = before]_vars

\* C3 witness: a rate action asking for 0.1 was accepted and the rate is 0.5,
\* in a room whose seq shows an earlier action.
C3_Witness ==
    /\ last.op = "playback:action" /\ last.ok
    /\ last.type = "rate" /\ last.time = Fin(Cs(10))
    /\ rooms[last.code].playback.playbackRate = Cs(50)
    /\ rooms[last.code].playback.seq = 2

\* C5: a playback:request, a room:join and a tick leave the playback state
\* (isPlaying, positionSeconds, playbackRate, updatedAtMs, seq) of every room
\* as it was, and two playback:request snapshots of one room taken at the
\* same clock reading with no handler in between are equal.
C5_SnapshotsDoNotMutate ==
    [][/\ last'.op \in {"playback:request", "room:join", "tick"}
          => \A c \in DOMAIN rooms :
                /\ c \in DOMAIN rooms'
                /\ rooms'[c].playback = rooms[c].playback
       /\ (/\ last.op = "playback:request" /\ last'.op = "playback:request"
           /\ last.code = last'.code
           /\ last'.code \in DOMAIN rooms)
          => /\ SnapshotsIn(out) # {}
             /\ SnapshotsIn(out') = SnapshotsIn(out)]_vars

\* C5 witness: a playback:request was answered from a room that has been
\* playing for a while; the reply carries the projected position and the
\* stored position is still the one of the last action.
C5_Witness ==
    /\ last.op = "playback:request" /\ last.ok
    /\ rooms[last.code].playback.isPlaying
    /\ rooms[last.code].playback.updatedAtMs < now
    /\ \E snap \in SnapshotsIn(out) :
          snap.positionSeconds > rooms[last.code].playback.positionSeconds

\* C10: a playback:action from a socket that is not a member of the named
\* room, or for a code that is not in the registry, changes no room and
\* emits nothing.
C10_UnauthorizedActionDropped ==
    [][(/\ last'.op = "playback:action"
        /\ \/ last'.code \notin DOMAIN rooms
           \/ last'.socket \notin Members(rooms[last'.code]))
       => /\ rooms' = rooms
          /\ channels' = channels
          /\ out' = {}]_vars

\* C10 witness: an action of a non-member was dropped while the room exists
\* with a seq that an earlier action had raised.
C10_Witness ==
    /\ last.op = "playback:action" /\ ~last.ok
    /\ last.code \in DOMAIN rooms
    /\ last.socket \notin Members(rooms[last.code])
    /\ rooms[last.code].playback.seq >= 1
    /\ out = {}

\* C4: the position of a snapshot equals
\* max(0, positionSeconds + (isPlaying ? (now - updatedAtMs)/1000 * rate : 0))
\* of the stored state; a paused room yields its stored position at every
\* reading; a room playing from 10 s at rate 1.5 yields 13 s after 2000 ms.
C4_ProjectionCorrect ==
    \A snap \in SnapshotsIn(out) :
        LET pb == rooms[last.code].playback
            dt == snap.serverTimeMs - pb.updatedAtMs
            moved == IF pb.isPlaying THEN (dt * pb.playbackRate) \div 1000 ELSE 0
        IN  /\ snap.serverTimeMs = now
            /\ snap.positionSeconds =
                  (IF pb.positionSeconds + moved > 0 THEN pb.positionSeconds + moved ELSE 0)
            /\ ~pb.isPlaying => snap.positionSeconds = pb.positionSeconds
            /\ (/\ pb.isPlaying /\ pb.positionSeconds = Sec(10)
                /\ pb.playbackRate = Cs(150) /\ dt = 2000)
               => snap.positionSeconds = Sec(13)
            /\ (/\ pb.isPlaying /\ pb.positionSeconds = Cs(25)
                /\ pb.playbackRate = Sec(2) /\ dt = -1000)
               => snap.positionSeconds = 0

\* C4 witness: the reply to a playback:request read at T + 2000 ms from a
\* room playing from 10 s at rate 1.5 since T carries 13 s.
C4_Witness ==
    /\ last.op = "playback:request" /\ last.ok
    /\ rooms[last.code].playback.isPlaying
    /\ rooms[last.code].playback.positionSeconds = Sec(10)
    /\ rooms[last.code].playback.playbackRate = Cs(150)
    /\ now = rooms[last.code].playback.updatedAtMs + 2000
    /\ \E snap \in SnapshotsIn(out) : snap.positionSeconds = Sec(13)

\* C6: the host of every room in the registry is one of the room's sockets.
C6_HostIsMember ==
    \A c \in DOMAIN rooms : rooms[c].hostSocketId \in Members(rooms[c])

\* C6 witness: a socket that was the host of two rooms has disconnected and
\* both rooms have been handed to a remaining member.
C6_Witness ==
    /\ last.op = "disconnect" /\ "promoted" \in last.via
    /\ DOMAIN rooms = {<<"A">>, <<"B">>}
    /\ \A c \in DOMAIN rooms :
          /\ rooms[c].hostSocketId # last.socket
          /\ rooms[c].hostSocketId \in live

\* C7: every room in the registry has at least one member; the disconnect
\* of a room's only member removes the room from the registry; and a
\* room:join for a code that is not in the registry is answered with the
\* 'Room not found' error.
C7_RoomsHaveMembers ==
    [][/\ \A c \in DOMAIN rooms' : Members(rooms'[c]) # {}
       /\ \A c \in DOMAIN rooms :
             (last'.op = "disconnect" /\ Members(rooms[c]) = {last'.socket})
             => c \notin DOMAIN rooms'
       /\ (last'.op = "room:join" /\ last'.code \notin DOMAIN rooms)
          => /\ last'.code \notin DOMAIN rooms'
             /\ \E m \in out' : /\ m.ev = "room:error"
                                /\ m.data.message = "Room not found"
                                /\ m.rcpt = {last'.socket}]_vars

\* C7 witness: the only member of a room has disconnected and the registry
\* is empty.
C7_Witness ==
    /\ last.op = "disconnect" /\ last.via = {"removed"}
    /\ rooms = EmptyMap
    /\ out = {}

\* C8: when the host of a room that has other members disconnects, the room
\* stays in the registry with its playback state unchanged, the new host is
\* one of the remaining members, and a room:info with the new host and the
\* reduced member count is broadcast to the room.
C8_HostFailover ==
    [][\A c \in DOMAIN rooms :
          (/\ last'.op = "disconnect"
           /\ rooms[c].hostSocketId = last'.socket
           /\ Members(rooms[c]) \ {last'.socket} # {})
          => /\ c \in DOMAIN rooms'
             /\ rooms'[c].playback = rooms[c].playback
             /\ Members(rooms'[c]) = Members(rooms[c]) \ {last'.socket}
             /\ rooms'[c].hostSocketId \in Members(rooms'[c])
             /\ \E m \in out' :
                   /\ m.ev = "room:info" /\ m.room = c
                   /\ m.data.code = c
                   /\ m.data.hostSocketId = rooms'[c].hostSocketId
                   /\ m.data.usersCount = Cardinality(Members(rooms[c])) - 1
                   /\ Members(rooms'[c]) \subseteq m.rcpt
                   /\ last'.socket \notin m.rcpt]_vars

\* C8 witness: the host of a three-member room whose playback had been
\* started has disconnected; two members remain and one of them is host.
C8_Witness ==
    /\ last.op = "disconnect" /\ last.via = {"promoted"}
    /\ \E c \in DOMAIN rooms :
          /\ Cardinality(Members(rooms[c])) = 2
          /\ rooms[c].playback.seq = 1
          /\ rooms[c].playback.isPlaying
          /\ \E m \in out : m.ev = "room:info" /\ m.data.usersCount = 2

\* C9: a room:join for a code that is not in the registry sends the caller
\* the 'Room not found' error and nothing else, and changes no room and no
\* socket.io room membership.
C9_JoinUnknownRoom ==
    [][(last'.op = "room:join" /\ last'.code \notin DOMAIN rooms)
       => /\ out' = {ToSocket(last'.socket, "room:error", [message |-> "Room not found"])}
          /\ rooms' = rooms
          /\ channels' = channels]_vars

\* C9 witness: a join for an unknown code was refused while another room
\* with two members, a report and a started playback exists.
C9_Witness ==
    /\ last.op = "room:join" /\ ~last.ok
    /\ last.code \notin DOMAIN rooms
    /\ \E c \in DOMAIN rooms :
          /\ Cardinality(Members(rooms[c])) = 2
          /\ last.socket \notin Members(rooms[c])
          /\ DOMAIN rooms[c].reports # {}
          /\ rooms[c].playback.seq = 1
    /\ \E m \in out : m.ev = "room:error"

\* C11: for every room and member, any two playback:correct messages the
\* room sent to that member are at least 800 ms of server time apart,
\* whatever ticks and reports of the member came in between.
C11_CorrectionCooldown ==
    \A k \in DOMAIN correctedAt :
        \A i \in 1..Len(correctedAt[k]), j \in 1..Len(correctedAt[k]) :
            i < j => correctedAt[k][j] - correctedAt[k][i] >= 800

\* C11 witness: a member of a two-member room was corrected twice, its
\* report having been replaced after the first correction, while it was in
\* need of a correction at a tick in between.
C11_Witness ==
    /\ last.op = "tick"
    /\ \E k \in DOMAIN correctedAt :
          /\ Len(correctedAt[k]) >= 2
          /\ Cardinality(Members(rooms[k[1]])) = 2
          /\ rooms[k[1]].reports[k[2]].receivedAtMs > correctedAt[k][1]
          /\ rooms[k[1]].reports[k[2]].receivedAtMs < correctedAt[k][2]

\* The members of a room whose report is at most 4000 ms old at time t, and
\* the drift of such a member: its reported position, projected to t when it
\* reported playing, minus the authoritative position at t.
FreshMembers(room, t) ==
    {s \in Members(room) : s \in DOMAIN room.reports
                             /\ t - room.reports[s].receivedAtMs <= 4000}

DriftOf(room, s, t) ==
    LET r == room.reports[s]
        projected == IF r.isPlaying
                     THEN r.timeSeconds
                              + (Max(0, t - r.receivedAtMs) * r.playbackRate) \div 1000
                     ELSE r.timeSeconds
    IN  Max(0, projected) - getPlaybackSnapshot(room, t).positionSeconds

\* The room:sync messages of a set of messages that went to room c.
SyncsOf(msgs, c) == {m \in msgs : m.ev = "room:sync" /\ m.room = c}

\* C12: on a tick at time now, a member without a report or with a report
\* older than 4000 ms has no entry in the drift list, adds nothing to
\* worstAbsDriftSeconds, makes isSynced false and is sent no correction; a
\* report aged exactly 4000 ms counts as fresh.
C12_StaleReportsExcluded ==
    [][last'.op = "tick" =>
         \A c \in DOMAIN rooms :
            LET room  == rooms[c]
                fresh == FreshMembers(room, now)
                stale == Members(room) \ fresh
            IN  /\ DOMAIN getRoomSyncStatus(room, now).drifts = fresh
                /\ \A m \in SyncsOf(out', c) :
                      /\ stale # {} => ~m.data.isSynced
                      /\ m.data.worstAbsDriftSeconds =
                            MaxOf({Abs(DriftOf(room, s, now)) : s \in fresh})
                /\ \A m \in Corrections(out') :
                      m.data.code = c => m.sock \notin stale]_vars

\* C12 witness: a tick in a two-member room where one member's report is
\* exactly 4000 ms old and 0.25 s off, and the other member's report, 3 s
\* off, is older: the indicator is not synced and its worst drift is 0.25 s.
C12_Witness ==
    /\ last.op = "tick"
    /\ \E c \in DOMAIN rooms : \E s1 \in Members(rooms[c]), s2 \in Members(rooms[c]) :
          /\ s1 \in DOMAIN rooms[c].reports /\ s2 \in DOMAIN rooms[c].reports
          /\ now - rooms[c].reports[s1].receivedAtMs = 4000
          /\ now - rooms[c].reports[s2].receivedAtMs > 4000
          /\ Abs(DriftOf(rooms[c], s2, now)) = Sec(3)
          /\ \E m \in SyncsOf(out, c) :
                ~m.data.isSynced /\ m.data.worstAbsDriftSeconds = Cs(25)

\* C13: every playback:correct of a tick has mode "hard" exactly when the
\* member's drift (its projected reported position minus the authoritative
\* position) is at least 2.0 s in absolute value, and "soft" otherwise.
C13_ModeSelection ==
    [][last'.op = "tick" =>
         \A m \in Corrections(out') :
            LET abs == Abs(DriftOf(rooms[m.data.code], m.sock, now))
            IN  /\ abs >= Sec(2) => m.data.mode = "hard"
                /\ abs < Sec(2) => m.data.mode = "soft"]_vars

\* A tick has just sent a correction of the given mode to a member whose
\* report was paused at timeSeconds, the room being paused at 10 s.
CorrectedAtTen(timeSeconds, mode) ==
    /\ last.op = "tick"
    /\ \E m \in Corrections(out) :
          LET room == rooms[m.data.code]
          IN  /\ ~room.playback.isPlaying /\ room.playback.positionSeconds = Sec(10)
              /\ m.data.targetTimeSeconds = Sec(10)
              /\ ~room.reports[m.sock].isPlaying
              /\ room.reports[m.sock].timeSeconds = timeSeconds
              /\ m.data.mode = mode

\* C13 witness: authoritative position 10 s and a paused report at 13 s
\* (drift 3.0) gave a hard correction.
C13_Witness == CorrectedAtTen(Sec(13), "hard")

\* The other cases of C13: drift 1.0 gave a soft correction, drift exactly
\* 2.0 a hard one, and a member that reported playing at the authoritative
\* position of a paused room was sent a soft one.
C13_SoftCase == CorrectedAtTen(Sec(11), "soft")

C13_ThresholdCase == CorrectedAtTen(Sec(12), "hard")

C13_MismatchCase ==
    /\ last.op = "tick"
    /\ \E m \in Corrections(out) :
          LET room == rooms[m.data.code]
          IN  /\ ~room.playback.isPlaying
              /\ room.reports[m.sock].isPlaying
              /\ Abs(DriftOf(room, m.sock, now)) <= Cs(25)
              /\ m.data.mode = "soft"

\* C14: every tick broadcasts exactly one room:sync to every room of the
\* registry and none to any other; its isSynced is true exactly when every
\* member has a fresh report with a drift of at most 0.25 s in absolute
\* value, and its worstAbsDriftSeconds is the largest absolute drift of the
\* members with fresh reports, 0 when there is none.
C14_SyncIndicator ==
    [][last'.op = "tick" =>
         /\ \A m \in out' : m.ev = "room:sync" => m.room \in DOMAIN rooms
         /\ \A c \in DOMAIN rooms :
               LET room  == rooms[c]
                   fresh == FreshMembers(room, now)
               IN  /\ Cardinality(SyncsOf(out', c)) = 1
                   /\ \A m \in SyncsOf(out', c) :
                         /\ m.rcpt = ChannelOf(channels, c)
                         /\ Members(room) \subseteq m.rcpt
                         /\ m.data.isSynced <=>
                               /\ fresh = Members(room)
                               /\ \A s \in fresh : Abs(DriftOf(room, s, now)) <= Cs(25)
                         /\ m.data.worstAbsDriftSeconds =
                               MaxOf({Abs(DriftOf(room, s, now)) : s \in fresh})]_vars

\* C14 witness: a tick found both members of a room with fresh reports, one
\* exactly 0.25 s off, and broadcast a synced indicator with that drift as
\* the worst to both.
C14_Witness ==
    /\ last.op = "tick"
    /\ \E c \in DOMAIN rooms :
          /\ Cardinality(Members(rooms[c])) = 2
          /\ rooms[c].playback.seq = 1
          /\ \E m \in SyncsOf(out, c) :
                /\ m.data.isSynced
                /\ m.data.worstAbsDriftSeconds = Cs(25)
                /\ m.rcpt = Members(rooms[c])

\* C17: a playback:report changes no room's playback, members or host and
\* no report entry of another socket, emits nothing, and changes nothing at
\* all when its sender is not a member of the room or the room is unknown.
C17_ReportIsAdvisory ==
    [][last'.op = "playback:report" =>
         /\ DOMAIN rooms' = DOMAIN rooms
         /\ channels' = channels /\ live' = live /\ out' = {}
         /\ \A c \in DOMAIN rooms :
               /\ rooms'[c].playback = rooms[c].playback
               /\ rooms'[c].sockets = rooms[c].sockets
               /\ rooms'[c].hostSocketId = rooms[c].hostSocketId
               /\ rooms'[c].code = rooms[c].code
               /\ DOMAIN rooms'[c].reports \subseteq DOMAIN rooms[c].reports \cup {last'.socket}
               /\ \A s \in DOMAIN rooms[c].reports :
                     s # last'.socket =>
                        /\ s \in DOMAIN rooms'[c].reports
                        /\ rooms'[c].reports[s] = rooms[c].reports[s]
               /\ c # last'.code => rooms'[c] = rooms[c]
         /\ (\/ last'.code \notin DOMAIN rooms
             \/ last'.socket \notin Members(rooms[last'.code]))
            => rooms' = rooms]_vars

\* C17 witness: a member of a two-member room whose playback was changed
\* replaced its report while the other member's report was in place.
C17_Witness ==
    /\ last.op = "playback:report" /\ last.ok
    /\ \E c \in DOMAIN rooms :
          /\ last.code = c
          /\ rooms[c].playback.seq = 1
          /\ DOMAIN rooms[c].reports = Members(rooms[c])
          /\ Cardinality(Members(rooms[c])) = 2
          /\ rooms[c].reports[last.socket].receivedAtMs = now
          /\ \E s \in Members(rooms[c]) : rooms[c].reports[s].receivedAtMs < now
          /\ rooms[c].reports[last.socket].lastCorrectedAtMs > 0

\* A report was dropped because its sender is not a member of the room.
C17_NonMemberCase ==
    /\ last.op = "playback:report" /\ ~last.ok
    /\ last.code \in DOMAIN rooms
    /\ last.socket \notin Members(rooms[last.code])

\* A report was dropped because no room has its code.
C17_UnknownRoomCase ==
    /\ last.op = "playback:report" /\ ~last.ok
    /\ last.code \notin DOMAIN rooms

\* A room as room:create left it: seq 0, paused, position 0, rate 1.
IsFreshlyCreated(room) ==
    /\ room.playback.seq = 0 /\ ~room.playback.isPlaying
    /\ room.playback.positionSeconds = 0 /\ room.playback.playbackRate = Sec(1)

\* C16: in a freshly created room, a member's play with timeSeconds = 5
\* handled at server time t produces exactly one message, a playback:state
\* broadcast that reaches every member, the sender included, with
\* isPlaying = true, seq = 1 and, when it is emitted at server time t too,
\* positionSeconds = 5 (emitted d ms later it carries 5 + d/1000); as long
\* as no further action is applied, every snapshot taken 2000 ms after t
\* has positionSeconds 7.0 and seq 1.
C16_PlayThenProject ==
    [][/\ (/\ last'.op = "playback:action" /\ last'.ok
            /\ last'.type = "play" /\ last'.time = Fin(Sec(5))
            /\ IsFreshlyCreated(rooms[last'.code]))
           => /\ Cardinality(out') = 1
              /\ \A m \in out' :
                    /\ m.ev = "playback:state"
                    /\ Members(rooms[last'.code]) \subseteq m.rcpt
                    /\ last'.socket \in m.rcpt
                    /\ m.data.isPlaying /\ m.data.seq = 1
                    /\ m.data.serverTimeMs = now'
                    /\ m.data.positionSeconds = Sec(5) + (now' - now) * 100
                    /\ now' = now => m.data.positionSeconds = Sec(5)
              /\ rooms'[last'.code].playback =
                    [isPlaying |-> TRUE, positionSeconds |-> Sec(5),
                     playbackRate |-> Sec(1), updatedAtMs |-> now, seq |-> 1]
       /\ (/\ last'.op \in {"playback:request", "room:join"} /\ last'.ok
            /\ rooms[last'.code].playback.isPlaying
            /\ rooms[last'.code].playback.positionSeconds = Sec(5)
            /\ rooms[last'.code].playback.seq = 1
            /\ now = rooms[last'.code].playback.updatedAtMs + 2000)
           => /\ SnapshotsIn(out') # {}
              /\ \A snap \in SnapshotsIn(out') :
                    snap.positionSeconds = Sec(7) /\ snap.seq = 1]_vars

\* C16 witness: host s1 and joined member s2; the room was set playing at
\* 5 s at time 0 and a snapshot requested at time 2000 shows 7.0 s, seq 1.
C16_Witness ==
    /\ last.op = "playback:request" /\ last.ok
    /\ now = 2000
    /\ LET room == rooms[last.code]
       IN  /\ room.hostSocketId = "s1" /\ room.sockets = <<"s1", "s2">>
           /\ room.playback.updatedAtMs = 0 /\ room.playback.seq = 1
           /\ \E snap \in SnapshotsIn(out) :
                 snap.positionSeconds = Sec(7) /\ snap.seq = 1 /\ snap.isPlaying

\* The first half of C16: the host's play at time 0 was broadcast, at time
\* 0, to s1 and s2 with position 5 s and seq 1.
C16_BroadcastCase ==
    /\ last.op = "playback:action" /\ last.ok /\ last.socket = "s1"
    /\ now = 0
    /\ rooms[last.code].hostSocketId = "s1"
    /\ \E m \in out :
          /\ m.ev = "playback:state" /\ m.rcpt = {"s1", "s2"}
          /\ m.data.positionSeconds = Sec(5) /\ m.data.seq = 1 /\ m.data.by = "s1"

\* C20: room:create stores a room whose host is the creating socket, whose
\* members are exactly the creator, whose reports are empty and whose
\* playback is paused at position 0 with rate 1 and seq 0; the creator is
\* sent the code (room:created, and the acknowledgement when one was asked
\* for) and a room:info with usersCount 1.
C20_RoomCreate ==
    [][last'.op = "room:create" =>
         LET c == last'.code
             s == last'.socket
         IN  /\ c \in DOMAIN rooms'
             /\ rooms'[c].code = c
             /\ rooms'[c].hostSocketId = s
             /\ Members(rooms'[c]) = {s}
             /\ DOMAIN rooms'[c].reports = {}
             /\ IsFreshlyCreated(rooms'[c])
             /\ \E m \in out' :
                   m.ev = "room:created" /\ m.rcpt = {s} /\ m.data.code = c
             /\ \A m \in out' :
                   m.ev \in {"room:created", "cb"} => m.rcpt = {s} /\
                      (IF m.ev = "cb" THEN m.data.value.code ELSE m.data.code) = c
             /\ \E m \in out' :
                   /\ m.ev = "room:info" /\ s \in m.rcpt
                   /\ m.data.code = c /\ m.data.hostSocketId = s
                   /\ m.data.usersCount = 1
             /\ \A m \in out' : m.ev \in {"room:created", "cb", "room:info"}]_vars

\* C20 witness: a socket created a room under an unused code and asked for
\* an acknowledgement: it is the host and only member, and it alone got the
\* code twice and the room:info.
C20_Witness ==
    /\ last.op = "room:create" /\ last.via = {"random"}
    /\ rooms[last.code].hostSocketId = last.socket
    /\ rooms[last.code].sockets = <<last.socket>>
    /\ \E m \in out : m.ev = "cb" /\ m.data.value.code = last.code
    /\ \E m \in out : m.ev = "room:created" /\ m.data.code = last.code
    /\ \E m \in out : m.ev = "room:info" /\ m.rcpt = {last.socket}
                        /\ m.data.usersCount = 1

\* room:create used the fallback code of a room that had two members and a
\* started playback: the room stored is new all the same, and its room:info
\* also reaches the socket that is still joined to the socket.io room.
C20_FallbackCase ==
    /\ last.op = "room:create" /\ last.via = {"fallback"}
    /\ Members(rooms[last.code]) = {last.socket}
    /\ \E m \in out : m.ev = "room:info" /\ Cardinality(m.rcpt) = 2
                        /\ m.data.usersCount = 1

\* What a step of the page leaves of the page when it changes nothing: all
\* of it but the record of what ran last and of what was emitted.
PageOf(c) == [c EXCEPT !.sent = {}, !.last = LastClient("", "", TRUE, NoState)]

\* C15: a playback:state (pushed, or the answer to a playback:request) whose
\* seq is at most lastSeqApplied changes nothing of the page: the video's
\* position, paused flag and rate, the base rate, the pending buffer, the
\* suppression deadline, the applying-remote flag, the correction timer and
\* the browser's timers, and lastSeqApplied, and nothing is emitted.
C15_StaleStateDiscarded ==
    [][(/\ client'.last.op \in {"playback:state", "playback:request"}
        /\ client'.last.payload.seq <= client.lastSeqApplied)
       => /\ PageOf(client') = PageOf(client)
          /\ client'.sent = {}]_vars

\* C15 witness: a duplicate of an applied state arrived while a soft
\* correction's timer was pending, the page was applying a remote message
\* and a newer state was waiting in the pending buffer.
C15_Witness ==
    /\ client.last.op = "playback:state"
    /\ client.last.payload.seq = client.lastSeqApplied
    /\ client.correctionTimeout # NoTimer
    /\ client.applyingRemote
    /\ client.pendingState # NoState
    /\ client.suppressEmitsUntil > client.now

\* An older state arrived after a newer one had been applied.
C15_OutOfOrderCase ==
    /\ client.last.op = "playback:state"
    /\ client.last.payload.seq < client.lastSeqApplied

\* The pending timers of the page that revert a soft correction.
RevertTimers(c) == {tm \in c.timers : tm.kind = "revert"}

\* C18: at most one timer that reverts a soft correction is pending, the one
\* correctionTimeoutRef holds; a step that starts to apply a playback:state
\* (one that passed the seq, readiness and scrubbing guards) or handles a
\* playback:correct removes every such timer that was pending before it;
\* and a timer that fires was created after the last state or correction
\* was started and was never cancelled.
C18_SingleCorrectionTimer ==
    [][/\ Cardinality(RevertTimers(client')) <= 1
       /\ {tm.id : tm \in RevertTimers(client')} = {client'.correctionTimeout} \ {NoTimer}
       /\ client'.epoch # client.epoch =>
             RevertTimers(client) \cap RevertTimers(client') = {}
       /\ (client'.last.op = "timeout" /\ client'.last.kind = "revert") =>
             /\ client'.last.payload.epoch = client.epoch
             /\ client'.last.payload.id \notin client.cancelled]_vars

\* C18 witness: a state was applied while a soft correction's timer was
\* pending and cancelled it; the clock is past the timer's delay and the only
\* timer left is the one that releases the applying-remote flag.
C18_Witness ==
    /\ client.last.op = "playback:state"
    /\ client.lastSeqApplied = client.last.payload.seq
    /\ client.epoch = 2
    /\ client.cancelled # {}
    /\ client.now >= 1200
    /\ RevertTimers(client) = {}
    /\ client.correctionTimeout = NoTimer

\* A soft correction's timer fired, and a later correction cancelled the
\* timer of an earlier one and set its own.
C18_FiredCase ==
    /\ client.last.op = "timeout" /\ client.last.kind = "revert"
    /\ client.playbackRate = client.basePlaybackRate

C18_SupersededCase ==
    /\ client.last.op = "playback:correct"
    /\ client.cancelled # {}
    /\ Cardinality(RevertTimers(client)) = 1

\* C19: a media event makes the page emit only when it is a trusted play,
\* pause or seeked event, the applying-remote flag is off, the clock is at or
\* past the suppression deadline and the room is neither closed nor in
\* error; what it emits then is one playback:action of the event's type.  So
\* no event less than 900 ms after the start of applying a remote state or
\* correction, and no untrusted event, is emitted as an action.
C19_EchoSuppressed ==
    [][(client'.last.op = "media" /\ client'.sent # {})
       => /\ client'.last.kind \in {"play", "pause", "seeked"}
          /\ client'.last.isTrusted
          /\ ~client.applyingRemote
          /\ client.now >= client.suppressEmitsUntil
          /\ ~client.closed /\ ~client.error
          /\ client.remoteStartedAt # <<>> =>
                client.now - client.remoteStartedAt[1] >= 900
          /\ client'.sent =
                {[ev |-> "playback:action",
                  data |-> [code |-> ClientCode,
                            type |-> IF client'.last.kind = "seeked" THEN "seek"
                                     ELSE client'.last.kind,
                            timeSeconds |-> client.currentTime]]}]_vars

\* C19 witness: exactly 900 ms after a remote state or correction started
\* to be applied, a trusted event was emitted as an action.
C19_Witness ==
    /\ client.last.op = "media" /\ client.last.isTrusted
    /\ client.sent # {}
    /\ client.remoteStartedAt # <<>>
    /\ client.now - client.remoteStartedAt[1] = 900
    /\ client.suppressEmitsUntil = client.now

\* A trusted play or pause event was not emitted only because the clock had
\* not reached the suppression deadline; an untrusted one was not emitted
\* although nothing else stood in its way.
C19_SuppressedCase ==
    /\ client.last.op = "media" /\ client.last.isTrusted
    /\ client.last.kind \in {"play", "pause"}
    /\ client.sent = {}
    /\ ~client.applyingRemote /\ ~client.closed /\ ~client.error
    /\ client.now < client.suppressEmitsUntil

C19_UntrustedCase ==
    /\ client.last.op = "media" /\ ~client.last.isTrusted
    /\ client.sent = {}
    /\ ~client.applyingRemote /\ ~client.closed /\ ~client.error
    /\ client.now >= client.suppressEmitsUntil

\* C21: on a tick at which some member of a room has no report, or a report
\* older than 4000 ms, the room sends no playback:correct and no report of
\* the room changes (so no lastCorrectedAtMs does), however large the drift
\* of the other members is.
C21_NoCorrectionWithoutAllFresh ==
    [][last'.op = "tick" =>
         \A c \in DOMAIN rooms :
            FreshMembers(rooms[c], now) # Members(rooms[c]) =>
               /\ \A m \in Corrections(out') : m.data.code # c
               /\ rooms'[c].reports = rooms[c].reports]_vars

\* A tick has just passed over a two-member room in which one member's
\* report was fresh, at least 2 s off and past its cooldown.
TickOverDriftingMember(c, s) ==
    /\ last.op = "tick"
    /\ c \in DOMAIN rooms
    /\ Cardinality(Members(rooms[c])) = 2
    /\ s \in FreshMembers(rooms[c], now)
    /\ Abs(DriftOf(rooms[c], s, now)) >= Sec(2)

\* C21 witness: the other member had never reported, and the member that
\* was 2 s or more off was sent nothing and kept its lastCorrectedAtMs.
C21_Witness ==
    \E c \in DOMAIN rooms : \E s \in Members(rooms[c]) :
       /\ TickOverDriftingMember(c, s)
       /\ DOMAIN rooms[c].reports = {s}
       /\ now - rooms[c].reports[s].lastCorrectedAtMs >= 800
       /\ Corrections(out) = {}

\* The same with a second member whose report is older than 4000 ms.
C21_StaleCase ==
    \E c \in DOMAIN rooms : \E s \in Members(rooms[c]) :
       /\ TickOverDriftingMember(c, s)
       /\ DOMAIN rooms[c].reports = Members(rooms[c])
       /\ FreshMembers(rooms[c], now) = {s}
       /\ now - rooms[c].reports[s].lastCorrectedAtMs >= 800
       /\ Corrections(out) = {}

\* What makes a member with a fresh report in need of a correction at time
\* t: a drift of more than 0.25 s, a reported isPlaying other than the
\* authoritative one, or a reported rate more than 0.001 away from the
\* authoritative rate.
NeedsCorrectionAt(room, s, t) ==
    LET r    == room.reports[s]
        snap == getPlaybackSnapshot(room, t)
    IN  \/ Abs(DriftOf(room, s, t)) > Cs(25)
        \/ r.isPlaying # snap.isPlaying
        \/ Abs(r.playbackRate - snap.playbackRate) > 100

\* The playback:correct messages of a set of messages that room c sent to s.
CorrectionsTo(msgs, c, s) ==
    {m \in Corrections(msgs) : m.data.code = c /\ m.sock = s}

\* C22: on a tick at time now over a room whose members all have fresh
\* reports, a member is sent a playback:correct exactly when it needs a
\* correction and now - lastCorrectedAtMs >= 800; then it is sent one, to
\* itself only, carrying the position, isPlaying, rate, seq and serverTimeMs
\* of the authoritative snapshot at now, and its lastCorrectedAtMs becomes
\* now; otherwise its report is left as it was.
C22_CorrectionDecision ==
    [][last'.op = "tick" =>
         \A c \in DOMAIN rooms :
            FreshMembers(rooms[c], now) = Members(rooms[c]) =>
               \A s \in Members(rooms[c]) :
                  LET room == rooms[c]
                      snap == getPlaybackSnapshot(room, now)
                      due  == /\ NeedsCorrectionAt(room, s, now)
                              /\ now - room.reports[s].lastCorrectedAtMs >= 800
                      got  == CorrectionsTo(out', c, s)
                  IN  /\ due <=> got # {}
                      /\ due =>
                           /\ Cardinality(got) = 1
                           /\ \A m \in got :
                                 /\ m.rcpt = {s}
                                 /\ m.data.targetTimeSeconds = snap.positionSeconds
                                 /\ m.data.isPlaying = snap.isPlaying
                                 /\ m.data.playbackRate = snap.playbackRate
                                 /\ m.data.seq = snap.seq
                                 /\ m.data.serverTimeMs = now
                           /\ rooms'[c].reports[s] =
                                 [room.reports[s] EXCEPT !.lastCorrectedAtMs = now]
                      /\ ~due => rooms'[c].reports[s] = room.reports[s]]_vars

\* A tick has just passed over a two-member room, playing since an earlier
\* reading of the clock, whose members all have fresh reports.
TickOverFreshRoom(c) ==
    /\ last.op = "tick"
    /\ c \in DOMAIN rooms
    /\ Cardinality(Members(rooms[c])) = 2
    /\ FreshMembers(rooms[c], now) = Members(rooms[c])
    /\ rooms[c].playback.isPlaying
    /\ rooms[c].playback.updatedAtMs < now

\* C22 witness: of the two members, one reported a rate 0.002 above the
\* room's while within 0.25 s of the authoritative position, and was sent
\* the only correction of the tick, with the projected position as target;
\* the other, in agreement with the room, was sent none.
C22_Witness ==
    \E c \in DOMAIN rooms : \E s1 \in Members(rooms[c]), s2 \in Members(rooms[c]) :
       /\ TickOverFreshRoom(c)
       /\ Abs(DriftOf(rooms[c], s1, now)) <= Cs(25)
       /\ rooms[c].reports[s1].playbackRate - rooms[c].playback.playbackRate = 200
       /\ rooms[c].reports[s1].lastCorrectedAtMs = now
       /\ ~NeedsCorrectionAt(rooms[c], s2, now)
       /\ \E m \in out :
             /\ Corrections(out) = {m}
             /\ m.sock = s1
             /\ m.data.targetTimeSeconds > rooms[c].playback.positionSeconds

\* The other cases of C22: a member whose rate is exactly 0.001 above the
\* room's and that is within 0.25 s was sent nothing; a member in need of a
\* correction was sent nothing because it was corrected less than 800 ms
\* before; a member was corrected again exactly 800 ms after a correction.
C22_EpsilonCase ==
    \E c \in DOMAIN rooms : \E s \in Members(rooms[c]) :
       /\ TickOverFreshRoom(c)
       /\ rooms[c].reports[s].playbackRate - rooms[c].playback.playbackRate = 100
       /\ ~NeedsCorrectionAt(rooms[c], s, now)
       /\ CorrectionsTo(out, c, s) = {}

C22_CooldownCase ==
    \E c \in DOMAIN rooms : \E s \in Members(rooms[c]) :
       /\ TickOverFreshRoom(c)
       /\ NeedsCorrectionAt(rooms[c], s, now)
       /\ now - rooms[c].reports[s].lastCorrectedAtMs \in 1..799
       /\ CorrectionsTo(out, c, s) = {}

C22_CooldownOverCase ==
    \E c \in DOMAIN rooms : \E s \in Members(rooms[c]) :
       /\ TickOverFreshRoom(c)
       /\ <<c, s>> \in DOMAIN correctedAt
       /\ Len(correctedAt[<<c, s>>]) = 2
       /\ correctedAt[<<c, s>>][2] - correctedAt[<<c, s>>][1] = 800
       /\ correctedAt[<<c, s>>][2] = now

\* C23: an accepted playback:action handled at time now leaves updatedAtMs
\* = now.  When it is a rate action, or a play, pause or seek whose
\* timeSeconds is not finite, the authoritative position at now is after the
\* action what it was before it, where "before" is projected with the
\* isPlaying and rate the room had before the action.  When it is a play,
\* pause or seek with a finite timeSeconds t, the stored position is
\* max(0, t).
C23_ClockContinuity ==
    [][(last'.op = "playback:action" /\ last'.ok) =>
         LET c      == last'.code
             before == getPlaybackSnapshot(rooms[c], now)
             after  == getPlaybackSnapshot(rooms'[c], now)
             jumps  == last'.type \in {"play", "pause", "seek"} /\ NumberIsFinite(last'.time)
         IN  /\ rooms'[c].playback.updatedAtMs = now
             /\ ~jumps => /\ after.positionSeconds = before.positionSeconds
                          /\ rooms'[c].playback.positionSeconds = before.positionSeconds
             /\ jumps => rooms'[c].playback.positionSeconds = Max(0, last'.time[1])]_vars

\* C23 witness: a room playing from 5 s at rate 1 took a rate action 500 ms
\* later: it is at 5.5 s, stamped with the time of the action, under its new
\* rate.
C23_Witness ==
    /\ last.op = "playback:action" /\ last.ok /\ last.type = "rate"
    /\ NumberIsFinite(last.time)
    /\ LET pb == rooms[last.code].playback
       IN  /\ pb.isPlaying /\ pb.seq = 2
           /\ pb.updatedAtMs = 500 /\ now = 500
           /\ pb.positionSeconds = Sec(5) + Cs(50)
           /\ pb.playbackRate # Sec(1)

\* The other cases of C23: a pause without a finite timeSeconds froze a
\* playing room at the projected position; a seek to -5 s stored 0; a play
\* with a finite timeSeconds on a room playing since an earlier reading
\* replaced the projected position.
C23_PauseInPlaceCase ==
    /\ last.op = "playback:action" /\ last.ok /\ last.type = "pause"
    /\ ~NumberIsFinite(last.time)
    /\ LET pb == rooms[last.code].playback
       IN  /\ ~pb.isPlaying /\ pb.updatedAtMs = 500
           /\ pb.positionSeconds = Sec(5) + Cs(50)

C23_NegativeTargetCase ==
    /\ last.op = "playback:action" /\ last.ok /\ last.type = "seek"
    /\ last.time = Fin(Sec(-5))
    /\ rooms[last.code].playback.positionSeconds = 0
    /\ rooms[last.code].playback.seq = 2

C23_JumpCase ==
    /\ last.op = "playback:action" /\ last.ok /\ last.type = "play"
    /\ last.time = Fin(Cs(10))
    /\ LET pb == rooms[last.code].playback
       IN  pb.seq = 2 /\ pb.updatedAtMs = 500 /\ pb.positionSeconds = Cs(10)

\* C24: an accepted playback:report replaces the sender's report by one
\* whose timeSeconds is the reported one raised to 0 (0 when not finite),
\* whose playbackRate is the reported one brought into [0.5, 2.0] (1 when
\* not finite), whose isPlaying is the reported one, whose receivedAtMs is
\* now and whose lastCorrectedAtMs is that of the report it replaces, 0 when
\* there was none.
C24_ReportStored ==
    [][(last'.op = "playback:report" /\ last'.ok) =>
         LET c   == last'.code
             s   == last'.socket
             p   == last'.payload
             had == s \in DOMAIN rooms[c].reports
             r   == rooms'[c].reports[s]
         IN  /\ s \in DOMAIN rooms'[c].reports
             /\ r.timeSeconds = IF p.timeSeconds = NotFinite THEN 0
                                ELSE IF p.timeSeconds[1] < 0 THEN 0 ELSE p.timeSeconds[1]
             /\ r.playbackRate = IF p.playbackRate = NotFinite THEN Sec(1)
                                 ELSE IF p.playbackRate[1] < Cs(50) THEN Cs(50)
                                 ELSE IF p.playbackRate[1] > Sec(2) THEN Sec(2)
                                 ELSE p.playbackRate[1]
             /\ r.isPlaying = p.isPlaying
             /\ r.receivedAtMs = now
             /\ r.lastCorrectedAtMs = IF had THEN rooms[c].reports[s].lastCorrectedAtMs ELSE 0
             /\ DOMAIN r = {"timeSeconds", "isPlaying", "playbackRate", "receivedAtMs",
                            "lastCorrectedAtMs"}]_vars

\* C24 witness: a member that a tick corrected 500 ms earlier sent a report
\* with a time and a rate that are not finite: the stored report has time
\* 0 and rate 1 and keeps the time of the correction.
C24_Witness ==
    /\ last.op = "playback:report" /\ last.ok
    /\ last.payload.timeSeconds = NotFinite /\ last.payload.playbackRate = NotFinite
    /\ LET r == rooms[last.code].reports[last.socket]
       IN  /\ r.timeSeconds = 0 /\ r.playbackRate = Sec(1)
           /\ r.receivedAtMs = now
           /\ r.lastCorrectedAtMs = now - 500
           /\ <<last.code, last.socket>> \in DOMAIN correctedAt

\* The other cases of C24: a negative time and a rate of 0.1 were stored as
\* 0 and 0.5, a rate of 5 as 2, and a first report got lastCorrectedAtMs 0.
C24_LowCase ==
    /\ last.op = "playback:report" /\ last.ok
    /\ last.payload.timeSeconds = Fin(Sec(-5)) /\ last.payload.playbackRate = Fin(Cs(10))
    /\ rooms[last.code].reports[last.socket].timeSeconds = 0
    /\ rooms[last.code].reports[last.socket].playbackRate = Cs(50)

C24_HighCase ==
    /\ last.op = "playback:report" /\ last.ok
    /\ last.payload.playbackRate = Fin(Sec(5))
    /\ rooms[last.code].reports[last.socket].playbackRate = Sec(2)
    /\ rooms[last.code].reports[last.socket].lastCorrectedAtMs = 0

\* C25: in every state, the sockets that have a report in a room are
\* members of that room; and after a disconnect the socket is neither a
\* member nor the owner of a report in any room.
C25_ReportsOfMembersOnly ==
    /\ \A c \in DOMAIN rooms : DOMAIN rooms[c].reports \subseteq Members(rooms[c])
    /\ last.op = "disconnect" =>
          \A c \in DOMAIN rooms :
             /\ last.socket \notin Members(rooms[c])
             /\ last.socket \notin DOMAIN rooms[c].reports

\* C25 witness: a socket that had a report in each of two rooms
\* disconnected, and both rooms are still there.
C25_Witness ==
    /\ last.op = "disconnect"
    /\ Cardinality(last.pruned) = 2
    /\ last.pruned \subseteq DOMAIN rooms
    /\ \A c \in last.pruned : rooms[c].sockets # <<>>

\* C26: lastSeqApplied never decreases, whatever the order in which
\* playback:state messages arrive and the promises of video.play() settle.
C26_SeqNeverDecreases ==
    [][client'.lastSeqApplied >= client.lastSeqApplied]_vars

\* The continuation of an older state has just stored its seq over the seq
\* of a newer state that was applied while play() was pending, and the
\* video shows the newer state.
C26_RegressedCase ==
    /\ client.last.op = "settled" /\ client.last.kind = "state"
    /\ client.last.payload = StateAt(1, TRUE)
    /\ client.lastSeqApplied = 1
    /\ client.awaiting = {}
    /\ client.paused
    /\ client.epoch = 2 /\ client.nextTimerId = 3

\* The guard of lines 120-129: the media has no metadata yet, or the viewer
\* is scrubbing.
GuardActive(c) == ~c.ready \/ c.isUserSeeking

\* C27: while the guard is active, the buffered state is never replaced by
\* a state of a lower seq (so that the state applied when the guard clears
\* is the one of the highest seq received under the guard).
C27_PendingNeverLowered ==
    [][(/\ GuardActive(client)
        /\ client.pendingState # NoState
        /\ client'.pendingState # NoState)
       => client'.pendingState[1].seq >= client.pendingState[1].seq]_vars

\* C28: a playback:state whose seq is above lastSeqApplied and that arrives
\* while the media has no metadata or the viewer is scrubbing changes the
\* pending buffer and nothing else of the page: position, paused, playback
\* rate, base rate, lastSeqApplied, the suppression deadline, the
\* applying-remote flag, the correction timer and the pending timers stay
\* as they were, and nothing is emitted.
C28_BufferedOnly ==
    [][(/\ client'.last.op = "playback:state"
        /\ client'.last.payload.seq > client.lastSeqApplied
        /\ GuardActive(client))
       => client' = [client EXCEPT !.pendingState = <<client'.last.payload>>,
                                   !.sent = {},
                                   !.last = client'.last]]_vars

\* C28 witness: the viewer is scrubbing a loaded video on which the state of
\* seq 1 and a soft correction were applied; the state of seq 2 arrived and
\* is in the buffer, the correction's timer still pending.
C28_Witness ==
    /\ client.last.op = "playback:state"
    /\ client.last.payload = StateAt(2, TRUE)
    /\ client.ready /\ client.isUserSeeking
    /\ client.pendingState = <<StateAt(2, TRUE)>>
    /\ client.lastSeqApplied = 1
    /\ client.correctionTimeout # NoTimer
    /\ client.paused
    /\ client.playbackRate # StateAt(2, TRUE).playbackRate

\* The same before the metadata is loaded, over a buffered state.
C28_NotReadyCase ==
    /\ client.last.op = "playback:state"
    /\ client.last.payload = StateAt(2, TRUE)
    /\ ~client.ready /\ ~client.isUserSeeking
    /\ client.pendingState = <<StateAt(2, TRUE)>>
    /\ client.epoch = 0

\* C29: while the viewer is scrubbing, no playback:state, polled state or
\* playback:correct changes the position of the video.
C29_NoSeekWhileScrubbing ==
    [][(/\ client.isUserSeeking
        /\ client'.last.op \in {"playback:state", "playback:request", "playback:correct"})
       => client'.currentTime = client.currentTime]_vars

\* A hard correction has just moved a loaded video, which the viewer is
\* scrubbing, to its target; a soft one has just moved it half a second.
C29_HardCase ==
    /\ client.last.op = "playback:correct" /\ client.last.payload.mode = "hard"
    /\ client.ready /\ client.isUserSeeking
    /\ client.epoch = 1
    /\ client.currentTime = Cs(150)

C29_SoftCase ==
    /\ client.last.op = "playback:correct" /\ client.last.payload.mode = "soft"
    /\ client.ready /\ client.isUserSeeking
    /\ client.epoch = 1
    /\ client.currentTime = Cs(50)

\* The step from page c0 to page c1 applied the state st: the buffer is
\* empty, the rates are the state's, the page is applying a remote state,
\* the video is within the seek threshold of the state's position, and
\* either the video is as the state says and lastSeqApplied is the state's
\* seq, or play() was called for it and has not settled.
AppliedNow(c0, c1, st) ==
    /\ c1.pendingState = NoState
    /\ c1.epoch = c0.epoch + 1
    /\ c1.basePlaybackRate = st.playbackRate /\ c1.playbackRate = st.playbackRate
    /\ c1.applyingRemote
    /\ Abs(computeTargetTimeSeconds(c1, st) - c1.currentTime)
          <= (IF st.isPlaying THEN Cs(50) ELSE Cs(12))
    /\ \/ c1.lastSeqApplied = st.seq /\ c1.paused = ~st.isPlaying
       \/ \E k \in c1.awaiting : k.of = "state" /\ k.state = st

\* The steps at which the guard clears without an action of the viewer
\* being emitted: loadedmetadata while nobody scrubs, and a trusted seeked
\* event on a loaded video that is not emitted.
ClearsQuietly(c0, c1) ==
    \/ c1.last.op = "loadedmetadata" /\ ~c0.isUserSeeking
    \/ /\ c1.last.op = "media" /\ c1.last.kind = "seeked" /\ c1.last.isTrusted
       /\ c0.ready /\ c1.sent = {}

C30_UserSeekWinsCase ==
    /\ client.last.op = "media" /\ client.last.kind = "seeked"
    /\ client.sent # {}
    /\ client.ready /\ ~client.isUserSeeking
    /\ client.pendingState = NoState
    /\ client.epoch = 0 /\ client.lastSeqApplied = -1

C30_UserPlayWinsCase ==
    /\ client.last.op = "media" /\ client.last.kind = "play"
    /\ client.sent # {}
    /\ client.ready /\ client.isUserSeeking
    /\ client.pendingState = NoState
    /\ client.epoch = 0

C30_StaleByThenCase ==
    /\ client.last.op = "media" /\ client.last.kind = "seeked"
    /\ client.sent = {}
    /\ client.pendingState = NoState
    /\ client.epoch = 1 /\ client.lastSeqApplied = 2
    /\ client.nextTimerId = 2

C30_LoadedCase ==
    /\ client.last.op = "loadedmetadata"
    /\ client.epoch = 1 /\ client.lastSeqApplied = 1
    /\ client.pendingState = NoState

----------------------------------------------------------------------------
(* The corrections on the page. *)

\* The page's position, play/pause, playback rate and base rate.
PlaybackOf(c) ==
    <<c.currentTime, c.paused, c.playbackRate, c.basePlaybackRate>>

\* C31: a playback:correct whose seq is lower than the last applied seq does
\* not change the local position, play/pause, playback rate or base rate.
C31_StaleCorrectionIgnored ==
    [][ (client'.last.op = "playback:correct"
         /\ client'.last.payload.seq < client.lastSeqApplied)
        => PlaybackOf(client') = PlaybackOf(client) ]_vars

\* A correction of seq 1 has moved and re-rated a page that had applied seq 2.
C31_StaleAppliedCase ==
    /\ client.last.op = "playback:correct"
    /\ client.last.payload.seq = 1
    /\ client.lastSeqApplied = 2
    /\ client.currentTime = Cs(150)
    /\ client.basePlaybackRate = Cs(150)

\* The target a correction projects to the page's clock, and its distance
\* from the video's position.
TargetOf(c, payload) == computeTargetTimeSeconds(c, StateOfCorrection(payload))
DriftTo(c, payload) == TargetOf(c, payload) - c.currentTime

\* The correction is for the page's room and takes the hard branch.
TakenHard(c, payload) ==
    /\ Normalize(payload.code) = ClientCode
    /\ payload.mode = "hard" \/ Abs(DriftTo(c, payload)) >= Sec(2)

\* C32: a hard correction, and a soft one whose target is 2.0 s or more from
\* the video's position, sets the position to max(0, projected target)
\* whatever the drift, sets the rate to the payload's rate, pauses a playing
\* video or attempts to play a paused one as the payload says, and leaves no
\* correction timer pending.
C32_HardCorrection ==
    [][ (client'.last.op = "playback:correct"
         /\ TakenHard(client, client'.last.payload))
        => LET payload == client'.last.payload
           IN  /\ client'.currentTime = Max(0, TargetOf(client, payload))
               /\ client'.playbackRate = payload.playbackRate
               /\ ~payload.isPlaying => client'.paused
               /\ (payload.isPlaying /\ ~client.paused) =>
                      ~client'.paused /\ client'.awaiting = client.awaiting
               /\ (payload.isPlaying /\ client.paused) =>
                      \E k \in client'.awaiting :
                          k.of = "correct" /\ k.state = StateOfCorrection(payload)
               /\ client'.correctionTimeout = NoTimer
               /\ RevertTimers(client') = {} ]_vars

\* A soft payload 4 s ahead has been applied as a hard correction while the
\* revert timer of an earlier soft correction was pending.
C32_Witness ==
    /\ client.last.op = "playback:correct"
    /\ client.last.payload.mode = "soft"
    /\ client.last.payload.targetTimeSeconds = Sec(4)
    /\ client.currentTime = Sec(4)
    /\ client.cancelled # {}
    /\ RevertTimers(client) = {}

\* A hard payload has been applied to a video that was 0.5 s from its target.
C32_SmallDriftCase ==
    /\ client.last.op = "playback:correct"
    /\ client.last.payload.mode = "hard"
    /\ client.lastSeqApplied = 2
    /\ client.currentTime = Cs(150)
    /\ client.epoch = 2

\* A soft payload exactly 2.0 s ahead has been applied as a hard correction
\* and has started the paused video.
C32_ThresholdCase ==
    /\ client.last.op = "playback:correct"
    /\ client.last.payload.mode = "soft"
    /\ client.last.payload.targetTimeSeconds = Sec(2)
    /\ client.currentTime = Sec(2)
    /\ client.now = 0
    /\ client.awaiting # {}
    /\ RevertTimers(client) = {}

\* v brought into [lo, hi]
Clamp(v, lo, hi) == Max(lo, Min(hi, v))

\* The correction is for the page's room and takes the soft branch.
TakenSoft(c, payload) ==
    /\ Normalize(payload.code) = ClientCode
    /\ ~TakenHard(c, payload)

\* C33: a soft correction with d = target - position, |d| < 2.0 s, moves the
\* position by clamp(0.5 d, -0.5, 0.5) if |d| > 0.75, which is at most 0.5 s
\* towards the target and never past it, and leaves it otherwise; it sets
\* the rate to clamp(base + clamp(0.25 d, -0.35, 0.35), 0.5, 2.0), which is
\* in [0.5, 2.0] and within 0.35 of the payload's rate.
C33_SoftCorrection ==
    [][ (client'.last.op = "playback:correct"
         /\ TakenSoft(client, client'.last.payload))
        => LET payload == client'.last.payload
               base == payload.playbackRate
               d == DriftTo(client, payload)
               moved == client'.currentTime - client.currentTime
           IN  /\ Abs(d) < Sec(2)
               /\ Abs(d) > Cs(75) =>
                     /\ moved = Clamp(d \div 2, -Cs(50), Cs(50))
                     /\ moved # 0 /\ Abs(moved) <= Cs(50)
                     /\ d > 0 => moved > 0 /\ client'.currentTime <= TargetOf(client, payload)
                     /\ d < 0 => moved < 0 /\ client'.currentTime >= TargetOf(client, payload)
               /\ Abs(d) <= Cs(75) => moved = 0
               /\ client'.playbackRate =
                      Clamp(base + Clamp(d \div 4, -Cs(35), Cs(35)), Cs(50), Sec(2))
               /\ client'.playbackRate >= Cs(50) /\ client'.playbackRate <= Sec(2)
               /\ Abs(client'.playbackRate - base) <= Cs(35) ]_vars

\* A soft correction 1.5 s ahead at rate 1.5 has moved the video by 0.5 s
\* and set its rate to 1.85.
C33_Witness ==
    /\ client.last.op = "playback:correct"
    /\ client.last.payload.mode = "soft"
    /\ client.last.payload.targetTimeSeconds = Cs(150)
    /\ client.currentTime = Cs(50)
    /\ client.playbackRate = Cs(185)

\* A soft correction 1 s behind at rate 0.5 has moved the video back by
\* 0.5 s and kept the rate at the lower end.
C33_BehindCase ==
    /\ client.last.op = "playback:correct"
    /\ client.last.payload.targetTimeSeconds = 0
    /\ client.lastSeqApplied = 2
    /\ client.currentTime = Cs(50)
    /\ client.playbackRate = Cs(50)

\* A soft correction exactly 0.75 s ahead at rate 2 has left the position
\* and kept the rate at the upper end.
C33_NoSeekCase ==
    /\ client.last.op = "playback:correct"
    /\ client.last.payload.targetTimeSeconds = Cs(175)
    /\ client.now = 0
    /\ client.lastSeqApplied = 2
    /\ client.currentTime = Sec(1)
    /\ client.playbackRate = Sec(2)
    /\ RevertTimers(client) # {}

\* A soft correction 0.5 s ahead at rate 1.5 has set the rate to 1.625.
C33_NudgeCase ==
    /\ client.last.op = "playback:correct"
    /\ client.currentTime = Sec(1)
    /\ client.playbackRate = 162500

----------------------------------------------------------------------------
(* The nudged rate and its timer. *)

\* C34: whenever no correction timer is pending, the local playback rate
\* equals the base rate; so a rate nudged by a soft correction is back at
\* the base rate, and its timer gone, once no timer is pending.
C34_RateIsBaseWithoutTimer ==
    client.correctionTimeout = NoTimer
        => client.playbackRate = client.basePlaybackRate

\* The part of C34 about the timer that fires: it sets the rate to the base
\* rate of that moment and leaves no correction timer pending.
C34_RevertRestoresBase ==
    [][ (client'.last.op = "timeout" /\ client'.last.kind = "revert")
        => /\ client'.playbackRate = client.basePlaybackRate
           /\ client'.basePlaybackRate = client.basePlaybackRate
           /\ client'.correctionTimeout = NoTimer
           /\ RevertTimers(client') = {} ]_vars

\* The part of C34 about what ends a pending correction timer: its firing,
\* or a state or a correction that is applied.
C34_TimerEndsByFiringOrRemote ==
    [][ (RevertTimers(client) # {} /\ RevertTimers(client') # RevertTimers(client))
        => \/ client'.last.op = "timeout" /\ client'.last.kind = "revert"
           \/ client'.epoch > client.epoch ]_vars

\* The timer of a soft correction at rate 1.5 has fired after the viewer had
\* moved the slider to 2.0: the rate is 2.0.
C34_SliderCase ==
    /\ client.last.op = "timeout" /\ client.last.kind = "revert"
    /\ client.basePlaybackRate = Sec(2)
    /\ client.playbackRate = Sec(2)
    /\ client.now = 1200

\* The viewer has chosen a file while the rate was nudged: the timer is
\* cancelled and the rate is not the base rate, whether the <video> kept its
\* rate or took the default one.
C34_FileWhileNudgedCase ==
    /\ client.last.op = "file"
    /\ client.last.isTrusted
    /\ client.correctionTimeout = NoTimer
    /\ RevertTimers(client) = {}
    /\ client.cancelled # {}
    /\ client.basePlaybackRate = Cs(150)
    /\ client.playbackRate = 162500

C34_FileResetsRateCase ==
    /\ client.last.op = "file"
    /\ ~client.last.isTrusted
    /\ client.correctionTimeout = NoTimer
    /\ client.basePlaybackRate = Cs(150)
    /\ client.playbackRate = Sec(1)

----------------------------------------------------------------------------
(* Blocked autoplay. *)

\* C35: (a) when a play() started by an applied state or correction is
\* rejected, that message's state becomes the blocked desired state and the
\* affordance is shown; (b) in every state the affordance is shown exactly
\* when a blocked desired state is retained; (c) the click on the affordance
\* seeks to the projected target of the retained state and then plays, and
\* both are cleared only when that play succeeds.
C35_BlockedAutoplay ==
    [][ /\ client'.needsGesture <=> client'.blockedAutoplayState # NoState
        /\ (client'.last.op = "settled" /\ client'.last.kind \in {"state", "correct"}
            /\ ~client'.last.isTrusted)
           => /\ client'.blockedAutoplayState = <<client'.last.payload>>
              /\ client'.needsGesture
        /\ client'.last.op = "click"
           => LET desired == client.blockedAutoplayState[1]
              IN  /\ client'.currentTime = Max(0, computeTargetTimeSeconds(client, desired))
                  /\ \E k \in client'.awaiting : k.of = "gesture" /\ k.state = desired
                  /\ client'.blockedAutoplayState = client.blockedAutoplayState
                  /\ client'.needsGesture
        /\ (client'.last.op = "settled" /\ client'.last.kind = "gesture")
           => IF client'.last.isTrusted
              THEN client'.blockedAutoplayState = NoState /\ ~client'.needsGesture
              ELSE /\ client'.blockedAutoplayState = client.blockedAutoplayState
                   /\ client'.needsGesture = client.needsGesture ]_vars

\* The play() of a click has succeeded after the play() of a correction had
\* been rejected: the blocked state and the affordance are gone and the
\* video plays at the correction's projected target.
C35_Witness ==
    /\ client.last.op = "settled" /\ client.last.kind = "gesture"
    /\ client.last.isTrusted
    /\ client.last.payload = StateOfCorrection(CorrectionFor(<<"a">>, "hard", TRUE))
    /\ client.blockedAutoplayState = NoState
    /\ ~client.needsGesture
    /\ ~client.paused

\* The play() of a state has just been rejected.
C35_RejectedStateCase ==
    /\ client.last.op = "settled" /\ client.last.kind = "state"
    /\ ~client.last.isTrusted
    /\ client.blockedAutoplayState = <<StateAt(1, TRUE)>>
    /\ client.needsGesture

\* The play() of a click has been rejected too: the affordance stays.
C35_RejectedClickCase ==
    /\ client.last.op = "settled" /\ client.last.kind = "gesture"
    /\ ~client.last.isTrusted
    /\ client.needsGesture

\* The click has moved the video to the target projected 500 ms later.
C35_ProjectedClickCase ==
    /\ client.last.op = "click"
    /\ client.now = 500
    /\ client.currentTime = Cs(150)
    /\ client.blockedAutoplayState = <<StateAt(1, TRUE)>>

\* C36: the affordance is shown, and a blocked desired state retained, only
\* while the state or correction applied last has isPlaying = true; after a
\* later one with isPlaying = false has been processed, also while the
\* play() of an earlier state is pending, neither remains.
C36_AffordanceOnlyWhilePlaying ==
    (client.needsGesture \/ client.blockedAutoplayState # NoState)
        => client.heardIsPlaying = <<TRUE>>

\* A pausing correction has been processed after the play() of a state had
\* been rejected: the affordance is still shown.
C36_PausingCorrectionCase ==
    /\ client.last.op = "playback:correct"
    /\ ~client.last.payload.isPlaying
    /\ client.awaiting = {}
    /\ client.needsGesture
    /\ client.blockedAutoplayState = <<StateAt(1, TRUE)>>

\* The play() of the state of seq 1 is rejected after the paused state of
\* seq 2 has been applied: the affordance appears in a paused room.
C36_OverlapCase ==
    /\ client.last.op = "settled" /\ client.last.kind = "state"
    /\ ~client.last.isTrusted
    /\ client.heardIsPlaying = <<FALSE>>
    /\ client.needsGesture
    /\ client.blockedAutoplayState = <<StateAt(1, TRUE)>>

\* A click has started the video although the message applied last paused
\* the room.
C36_ClickPlaysPausedRoomCase ==
    /\ client.last.op = "settled" /\ client.last.kind = "gesture"
    /\ client.last.isTrusted
    /\ client.heardIsPlaying = <<FALSE>>
    /\ client.awaiting = {}
    /\ ~client.paused

----------------------------------------------------------------------------
(* The periodic pull. *)

\* C37: when the snapshot a periodic playback:request returns projects to a
\* target more than 1.0 s from the video's position, with the media ready
\* and the viewer not scrubbing, the snapshot is applied and the video is at
\* the target afterwards, also when the page has already applied the seq of
\* the snapshot.
C37_PolledSnapshotApplied ==
    [][ (/\ client'.last.op = "playback:request"
         /\ client.ready /\ ~client.isUserSeeking
         /\ Abs(computeTargetTimeSeconds(client, client'.last.payload)
                - client.currentTime) > Sec(1))
        => /\ client'.epoch = client.epoch + 1
           /\ client'.currentTime =
                  Max(0, computeTargetTimeSeconds(client, client'.last.payload)) ]_vars

\* The snapshot of seq 2 came back 1.2 s ahead of a video whose play() had
\* been blocked, to a page that had applied seq 2: nothing has changed.
C37_CurrentSeqDiscardedCase ==
    /\ client.last.op = "playback:request"
    /\ client.last.payload = StateAt(2, TRUE)
    /\ client.lastSeqApplied = 2
    /\ client.ready /\ ~client.isUserSeeking
    /\ client.now = 1200
    /\ client.paused
    /\ client.currentTime = Sec(1)
    /\ client.epoch = 1

\* The snapshot of a seq the page had not applied came back more than 1 s
\* from the video and has been applied.
C37_NewSeqAppliedCase ==
    /\ client.last.op = "playback:request"
    /\ client.last.payload = StateAt(2, TRUE)
    /\ client.now = 1200
    /\ client.currentTime = 220000
    /\ client.epoch >= 1
    /\ client.awaiting # {}

----------------------------------------------------------------------------
(* Rooms side by side. *)

\* Room b is in the registry after the step as it was before it.
RoomKept(b) == b \in DOMAIN rooms' /\ rooms'[b] = rooms[b]

\* C38: a playback:action, playback:report or room:join addressed to a room
\* leaves every other room (members, host, playback with its seq, reports)
\* as it was; a tick leaves members, host and playback of every room as they
\* were, and every correction it sends for a room goes to a member of that
\* room whose report in that room is fresh and in need of a correction, and
\* carries that room's snapshot; a disconnect removes the socket from the
\* rooms that contained it and leaves every other room as it was.
C38_RoomsIndependent ==
    [][ /\ last'.op \in {"playback:action", "playback:report", "room:join"}
           => \A b \in DOMAIN rooms \ {last'.code} : RoomKept(b)
        /\ last'.op = "tick"
           => /\ DOMAIN rooms' = DOMAIN rooms
              /\ \A c \in DOMAIN rooms :
                    /\ rooms'[c].sockets = rooms[c].sockets
                    /\ rooms'[c].hostSocketId = rooms[c].hostSocketId
                    /\ rooms'[c].playback = rooms[c].playback
                    /\ \A s \in DOMAIN rooms[c].reports :
                          rooms'[c].reports[s] # rooms[c].reports[s]
                             => CorrectionsTo(out', c, s) # {}
              /\ \A m \in Corrections(out') :
                    LET c == m.data.code
                        snap == getPlaybackSnapshot(rooms[c], now)
                    IN  /\ c \in DOMAIN rooms
                        /\ m.sock \in Members(rooms[c])
                        /\ m.rcpt = {m.sock}
                        /\ FreshMembers(rooms[c], now) = Members(rooms[c])
                        /\ NeedsCorrectionAt(rooms[c], m.sock, now)
                        /\ m.data.targetTimeSeconds = snap.positionSeconds
                        /\ m.data.isPlaying = snap.isPlaying
                        /\ m.data.playbackRate = snap.playbackRate
                        /\ m.data.seq = snap.seq
        /\ last'.op = "disconnect"
           => \A c \in DOMAIN rooms :
                 IF last'.socket \in Members(rooms[c])
                 THEN \/ c \notin DOMAIN rooms' /\ Members(rooms[c]) = {last'.socket}
                      \/ /\ c \in DOMAIN rooms'
                         /\ Members(rooms'[c]) = Members(rooms[c]) \ {last'.socket}
                         /\ rooms'[c].playback = rooms[c].playback
                 ELSE RoomKept(c) ]_vars

\* A play action on one room has raised its seq while the other room, with
\* a member and a report of its own, is at seq 0.
C38_Witness ==
    /\ last.op = "playback:action" /\ last.ok
    /\ Cardinality(DOMAIN rooms) = 2
    /\ rooms[last.code].playback.seq = 1
    /\ \E b \in DOMAIN rooms \ {last.code} :
          /\ rooms[b].playback.seq = 0
          /\ rooms[b].reports # EmptyMap

\* A tick has corrected a socket in one room and not in the other, where it
\* is a member with a fresh report too.
C38_TickCase ==
    /\ last.op = "tick"
    /\ \E c \in DOMAIN rooms, b \in DOMAIN rooms :
          /\ c # b
          /\ \E s \in DOMAIN rooms[c].reports \cap DOMAIN rooms[b].reports :
                /\ CorrectionsTo(out, c, s) # {}
                /\ CorrectionsTo(out, b, s) = {}
                /\ IsFresh(rooms[b], s, now)

\* A socket that was in one of two rooms has disconnected; both rooms are
\* still there.
C38_DisconnectCase ==
    /\ last.op = "disconnect"
    /\ Cardinality(DOMAIN rooms) = 2
    /\ \E c \in DOMAIN rooms : rooms[c].hostSocketId # last.socket
    /\ "promoted" \in last.via

\* A join to one room while the socket stays a member of the other.
C38_JoinCase ==
    /\ last.op = "room:join" /\ last.ok
    /\ \E b \in DOMAIN rooms \ {last.code} : last.socket \in Members(rooms[b])

----------------------------------------------------------------------------
(* The registry under room:create. *)

\* C39: room:create never replaces or alters a room that exists, also when
\* the twenty random codes were all taken and the code derived from the
\* time is used.
C39_CreateKeepsRooms ==
    [][ last'.op = "room:create"
        => \A c \in DOMAIN rooms : c \in DOMAIN rooms' /\ rooms'[c] = rooms[c] ]_vars

\* room:create has replaced a room by a new room of the same code: a socket
\* that is still joined to the socket.io room of that code is a member of
\* no room any more.
C39_ReplacedCase ==
    /\ last.op = "room:create" /\ last.via = {"fallback"}
    /\ Members(rooms[last.code]) = {last.socket}
    /\ rooms[last.code].playback.seq = 0
    /\ rooms[last.code].reports = EmptyMap
    /\ \E s \in live \ {last.socket} :
          /\ s \in ChannelOf(channels, last.code)
          /\ \A c \in DOMAIN rooms : s \notin Members(rooms[c])

\* room:create under a random code next to an existing room.
C39_RandomCase ==
    /\ last.op = "room:create" /\ last.via = {"random"}
    /\ Cardinality(DOMAIN rooms) = 2

----------------------------------------------------------------------------
(* The server that closes a room when its host leaves. *)

\* The messages of a set that the event ev sends to the socket.io room c.
RoomEvents(msgs, ev, c) == {m \in msgs : m.ev = ev /\ m.room = c}

\* C40: in the first listing, the disconnect of a room's host removes the
\* room even if members remain, broadcasts room:closed to the sockets still
\* joined to it and sends no room:info for it, and a room:join with a code
\* that has no room is answered with room:error 'Room not found' and changes
\* nothing; the disconnect of another member leaves the room and its host
\* in place, without that member, and broadcasts its room:info.
C40_HostDepartureCloses ==
    [][ /\ last'.op = "disconnect"
           => \A c \in DOMAIN rooms :
                 LET s == last'.socket
                 IN  IF s \notin Members(rooms[c]) THEN RoomKept(c)
                     ELSE IF rooms[c].hostSocketId = s
                     THEN /\ c \notin DOMAIN rooms'
                          /\ \E m \in RoomEvents(out', "room:closed", c) :
                                m.rcpt = ChannelOf(channels, c) \ {s}
                          /\ RoomEvents(out', "room:info", c) = {}
                     ELSE /\ c \in DOMAIN rooms'
                          /\ rooms'[c].hostSocketId = rooms[c].hostSocketId
                          /\ Members(rooms'[c]) = Members(rooms[c]) \ {s}
                          /\ RoomEvents(out', "room:closed", c) = {}
                          /\ \E m \in RoomEvents(out', "room:info", c) :
                                /\ m.rcpt = ChannelOf(channels, c) \ {s}
                                /\ m.data.hostSocketId = rooms[c].hostSocketId
                                /\ m.data.usersCount = Cardinality(Members(rooms[c])) - 1
        /\ (last'.op = "room:join" /\ last'.code \notin DOMAIN rooms)
           => /\ out' = {ToSocket(last'.socket, "room:error",
                                  [message |-> "Room not found"])}
              /\ rooms' = rooms /\ channels' = channels ]_vars

\* The host of a room with two other members has disconnected: the room is
\* gone and both were sent room:closed.
C40_Witness ==
    /\ last.op = "disconnect"
    /\ "closed" \in last.via
    /\ \E m \in out : m.ev = "room:closed" /\ Cardinality(m.rcpt) = 2
                        /\ m.room \notin DOMAIN rooms

\* A join to the code of a closed room, to which a former member is still
\* joined, has been refused.
C40_JoinAfterCloseCase ==
    /\ last.op = "room:join" /\ ~last.ok
    /\ last.code \notin DOMAIN rooms
    /\ ChannelOf(channels, last.code) # {}
    /\ \E m \in out : m.ev = "room:error"

\* A member that is not the host has disconnected from a room of three.
C40_MemberLeavesCase ==
    /\ last.op = "disconnect"
    /\ last.via = {}
    /\ \E m \in out : /\ m.ev = "room:info" /\ m.data.usersCount = 2
                      /\ m.room \in DOMAIN rooms
                      /\ rooms[m.room].hostSocketId \in live

\* A socket that hosts one room and is a member of the other has
\* disconnected: the first is closed and the second is kept.
C40_BothCase ==
    /\ last.op = "disconnect"
    /\ "closed" \in last.via
    /\ \E m \in out : m.ev = "room:info"
    /\ \E m \in out : m.ev = "room:closed"

============================================================================
